---- MODULE Spec2Model ----
(***************************************************************************)
(* A model of the real-karma-league repository:                            *)
(*   - scripts/parse_rkl_games.py : result extraction (winner), linking of  *)
(*     results to lineups (link_results_to_lineups);                        *)
(*   - scripts/discover-player-ids.py : PlayerDiscovery;                    *)
(*   - scripts/match-s6-karma.py : KarmaMatcher;                            *)
(*   - scripts/s6_reconstruction.py : S6Reconstructor.                      *)
(* Strings are sequences of one-character strings, so that lower(),        *)
(* strip(), "in" (substring) and sorted() are computed, not assumed.       *)
(***************************************************************************)
EXTENDS Integers, Sequences, FiniteSets, TLC

(***************************************************************************)
(* Bounds of the model                                                     *)
(***************************************************************************)
MaxLineups == 2
MaxResults == 2
MaxLines == 3

(***************************************************************************)
(* Strings                                                                 *)
(***************************************************************************)
\* ord() of the characters the model uses
CharOrd(c) ==
    CASE c = " " -> 32
      [] c = "." -> 46
      [] c = "A" -> 65
      [] c = "B" -> 66
      [] c = "C" -> 67
      [] c = "a" -> 97
      [] c = "b" -> 98
      [] c = "c" -> 99
      [] c = "f" -> 102
      [] c = "o" -> 111
      [] OTHER -> 122

LowerChar(c) ==
    CASE c = "A" -> "a"
      [] c = "B" -> "b"
      [] c = "C" -> "c"
      [] OTHER -> c

\* str.lower()
Lower(s) == [i \in 1..Len(s) |-> LowerChar(s[i])]

RECURSIVE LStrip(_)
LStrip(s) == IF s # <<>> /\ Head(s) = " " THEN LStrip(Tail(s)) ELSE s

RECURSIVE RStrip(_)
RStrip(s) ==
    IF s # <<>> /\ s[Len(s)] = " " THEN RStrip(SubSeq(s, 1, Len(s) - 1)) ELSE s

\* str.strip()
Strip(s) == RStrip(LStrip(s))

\* Python's  s in t  for strings (the empty string is in every string)
IsSubstr(s, t) ==
    \E i \in 0..(Len(t) - Len(s)) : SubSeq(t, i + 1, i + Len(s)) = s

\* Python's  s < t  for strings (code point order)
RECURSIVE StrLess(_, _)
StrLess(s, t) ==
    IF t = <<>> THEN FALSE
    ELSE IF s = <<>> THEN TRUE
    ELSE IF CharOrd(Head(s)) < CharOrd(Head(t)) THEN TRUE
    ELSE IF CharOrd(Head(s)) > CharOrd(Head(t)) THEN FALSE
    ELSE StrLess(Tail(s), Tail(t))

\* tuple(sorted([x, y]))
SortedPair(x, y) == IF StrLess(y, x) THEN <<y, x>> ELSE <<x, y>>

IsAlnum(c) == c \notin {" ", "."}

\* re.sub(r"[^a-z0-9]", "", n) on a lower-cased name
AlnumOnly(s) == SelectSeq(s, IsAlnum)

(***************************************************************************)
(* Dates.  A date string is "", "YYYY-MM-DD" or "YYYY-MM-DDTHH:MM:SS"; the *)
(* model keeps the format beside the day number, because the code compares *)
(* date strings for equality.                                              *)
(***************************************************************************)
EmptyDate == [fmt |-> "empty", day |-> 0]

\* date.isoformat()
IsoDate(d) == [fmt |-> "date", day |-> d]

\* datetime.isoformat()
IsoDateTime(d) == [fmt |-> "datetime", day |-> d]

\* truthiness of a date string
HasDate(s) == s.fmt # "empty"

\* datetime.fromisoformat(s), as a day number (s is not empty)
FromIso(s) == s.day

Abs(x) == IF x < 0 THEN -x ELSE x

(***************************************************************************)
(* parse_rkl_games.py: linking results to lineups                           *)
(***************************************************************************)
VARIABLES
    lineups,          \* list[GameLineup], the input
    results,          \* list[GameResult], the input
    games,            \* list[CompleteGame], the output being built
    used_lineup_ids,  \* set of consumed lineup comment ids
    game_id,          \* next game id
    ri,               \* index of the next result of  for result in results
    li,               \* index of the next lineup of the final  for lu in lineups
    single_team_results,  \* list[SingleTeamResult], the input of run_parser
    leaderboard_scores,   \* date -> team -> score info, the input of the fill
    stage,            \* "match" before match_single_team_results, then "link"
    bi                \* index of the next game of the score fill

linkVars == <<lineups, results, games, used_lineup_ids, game_id, ri, li,
              single_team_results, leaderboard_scores, stage, bi>>

\* what link_results_to_lineups leaves alone
runVars == <<single_team_results, leaderboard_scores, stage, bi>>

(***************************************************************************)
(* parse_rkl_games.py: extraction of a result from a post                   *)
(***************************************************************************)
VARIABLES
    text_lines,       \* the lines of the post (text.splitlines())
    extracted         \* what extract_game_result_data returned, once called

resVars == <<text_lines, extracted>>

(***************************************************************************)
(* discover-player-ids.py, match-s6-karma.py, s6_reconstruction.py:         *)
(* resolution of handles to user ids                                        *)
(***************************************************************************)
VARIABLES
    prog,              \* which script runs: "pd", "km" or "s6"
    supabase,          \* self.supabase is set (create_client succeeded)
    source,            \* the karma_rankings table: date -> rows
    players,           \* the roster entries of self.games, in loop order
    pc,                \* position of the run: [phase, i, j]
    karma_cache,       \* karma_by_date / karma_cache: date -> [present, rows]
    requests,          \* per date, the snapshot queries issued so far
    ranked_days_cache, \* user_id -> the cached history of the id
    traversals,        \* per user id, the history traversals started so far
    fetch,             \* the running (or last) fetch_ranked_days call
    discoveries,       \* discoveries / discovered_ids: handle -> record
    date_matched_ids,  \* date -> set of user ids matched on that date
    found,             \* what each strategy of run_all_strategies returned
    api                \* strategy_ranked_days_api: its loop variables

idVars == <<prog, supabase, source, players, pc, karma_cache, requests,
            ranked_days_cache, traversals, fetch, discoveries,
            date_matched_ids, found, api>>

(***************************************************************************)
(* a pure function of the scripts under check: its argument and its result *)
(***************************************************************************)
VARIABLES
    arg,               \* the argument of the call
    ret                \* what the call returned, once made

fnVars == <<arg, ret>>

(***************************************************************************)
(* app.py: auto-extraction of posts into the manual_extract table           *)
(***************************************************************************)
VARIABLES
    rkl_comments,      \* the rkl_comments table, by comment_id
    manual_extract,    \* the manual_extract table: its rows, in id order
    sessions           \* per browser session, its run of the auto-extract

appVars == <<rkl_comments, manual_extract, sessions>>

vars == <<linkVars, resVars, idVars, fnVars, appVars>>

\* the linker is not running
LinkIdle ==
    /\ lineups = <<>> /\ results = <<>> /\ games = <<>>
    /\ used_lineup_ids = {} /\ game_id = 1 /\ ri = 1 /\ li = 1
    /\ single_team_results = <<>> /\ leaderboard_scores = <<>>
    /\ stage = "link" /\ bi = 1

\* the extractor is not running
ResIdle == text_lines = <<>> /\ extracted = [status |-> "idle"]

\* no function is under check
FnIdle == arg = <<>> /\ ret = [status |-> "idle"]

\* the app is not running
AppIdle == rkl_comments = <<>> /\ manual_extract = <<>> /\ sessions = <<>>

\* no resolution script is running
IdIdle ==
    /\ prog = "none" /\ supabase = FALSE /\ source = <<>> /\ players = <<>>
    /\ pc = [phase |-> "done", i |-> 0, j |-> 0]
    /\ karma_cache = <<>> /\ requests = <<>> /\ ranked_days_cache = <<>>
    /\ traversals = <<>>
    /\ fetch = [active |-> FALSE, user_id |-> "", all_data |-> <<>>,
                 oldest_date |-> -1, failed |-> FALSE]
    /\ discoveries = <<>> /\ date_matched_ids = <<>>
    /\ found = <<>> /\ api = <<>>

\* Optional[int] None for a comment id
NoId == 0

Ab == <<"a", "b">>
Cc == <<"c">>

\* Optional[float]: None, or a number
NoneScore == [none |-> TRUE, val |-> 0]
SomeScore(v) == [none |-> FALSE, val |-> v]

\* the captain, roster and seed of each side of a lineup: what is on side A
\* differs from what is on side B
LineupSides ==
    [captain_a |-> "al", captain_b |-> "bo",
     players_a |-> <<"al", "cy">>, players_b |-> <<"bo", "di">>,
     seed_a |-> "1", seed_b |-> "2"]

\* the score, adjustment and seed of each side of a result
ResultSides ==
    [score_a |-> SomeScore(38000), score_b |-> SomeScore(35000),
     adjustment_a |-> SomeScore(-500), adjustment_b |-> NoneScore,
     seed_a |-> "3", seed_b |-> "4"]

\* GameResult.winner
Winners == {"A", "B", "None"}

\* (team_a, team_b, game_date) of the lineups the model draws from
LineupTeams ==
    { [team_a |-> Ab, team_b |-> Cc, game_date |-> IsoDate(10)],
      [team_a |-> Cc, team_b |-> <<"A", "b">>, game_date |-> IsoDate(10)],
      [team_a |-> Ab, team_b |-> Cc, game_date |-> IsoDate(8)],
      [team_a |-> Ab, team_b |-> Cc, game_date |-> IsoDate(2)],
      [team_a |-> Ab, team_b |-> Cc, game_date |-> IsoDate(11)],
      [team_a |-> <<"a", ".", "b">>, team_b |-> Cc, game_date |-> IsoDate(10)],
      [team_a |-> Ab, team_b |-> <<>>, game_date |-> EmptyDate],
      [team_a |-> <<"a">>, team_b |-> Cc, game_date |-> IsoDate(9)],
      [team_a |-> Ab, team_b |-> Cc, game_date |-> IsoDate(9)],
      [team_a |-> Ab, team_b |-> <<>>, game_date |-> IsoDate(10)] }

LineupPool == { lu @@ LineupSides : lu \in LineupTeams }

\* (team_a, team_b, game_date) of the results the model draws from
ResultTeams ==
    { [team_a |-> Ab, team_b |-> Cc, game_date |-> IsoDate(10)],
      [team_a |-> Cc, team_b |-> Ab, game_date |-> IsoDate(10)],
      [team_a |-> <<"a">>, team_b |-> Cc, game_date |-> IsoDate(10)],
      [team_a |-> Ab, team_b |-> Cc, game_date |-> EmptyDate] }

ResultPool ==
    { r @@ ResultSides @@ [winner |-> w] : r \in ResultTeams, w \in Winners }

SeqsUpTo(S, n) == UNION { [1..k -> S] : k \in 0..n }

\* one record per comment: comment_id is the comment's own id
WithIds(s) == [i \in 1..Len(s) |-> [comment_id |-> i] @@ s[i]]

normalize_team_name(name) == IF name # <<>> THEN Strip(Lower(name)) ELSE <<>>

fuzzy(s1, s2) ==
    IF s1 = <<>> \/ s2 = <<>> THEN FALSE ELSE IsSubstr(s1, s2) \/ IsSubstr(s2, s1)

teams_match(lineup_a, lineup_b, result_a, result_b) ==
    LET la == normalize_team_name(lineup_a)
        lb == normalize_team_name(lineup_b)
        ra == normalize_team_name(result_a)
        rb == normalize_team_name(result_b)
    IN  \/ (la = ra /\ lb = rb) \/ (la = rb /\ lb = ra)
        \/ (fuzzy(la, ra) /\ fuzzy(lb, rb)) \/ (fuzzy(la, rb) /\ fuzzy(lb, ra))

fuzzy_team_match(name1, name2) ==
    LET n1 == normalize_team_name(name1)
        n2 == normalize_team_name(name2)
    IN  IF n1 = <<>> \/ n2 = <<>> THEN FALSE
        ELSE \/ n1 = n2
             \/ IsSubstr(n1, n2) \/ IsSubstr(n2, n1)
             \/ AlnumOnly(n1) = AlnumOnly(n2)

\* a linker that never skips a consumed lineup
IsUsedNever(lu, used) == FALSE

\* lu.comment_id in used_lineup_ids  (the test of both strategies)
IsUsed(lu, used) == lu.comment_id \in used

\* potential_dates: the result's date, then 1 to 3 days back
potential_dates(result) ==
    <<result.game_date>> \o
    (IF HasDate(result.game_date)
     THEN [k \in 1..3 |-> IsoDateTime(FromIso(result.game_date) - k)]
     ELSE <<>>)

\* lineups_by_date.get(date, [])
lineups_by_date(date) == SelectSeq(lineups, LAMBDA lu : lu.game_date = date)

\* the team key a lineup is indexed under, <<>> when it is not indexed
team_key(lu) ==
    LET key_a == normalize_team_name(lu.team_a)
        key_b == normalize_team_name(lu.team_b)
    IN  IF key_a # <<>> /\ key_b # <<>> THEN SortedPair(key_a, key_b) ELSE <<>>

\* lineups_by_teams[key], in insertion order
lineups_by_teams(key) ==
    SelectSeq(lineups, LAMBDA lu : team_key(lu) # <<>> /\ team_key(lu) = key)

\* the keys of lineups_by_teams, in insertion order
RECURSIVE team_keys(_)
team_keys(n) ==
    IF n = 0 THEN <<>>
    ELSE LET prev == team_keys(n - 1)
             k == team_key(lineups[n])
         IN  IF k = <<>> \/ \E j \in 1..Len(prev) : prev[j] = k
             THEN prev ELSE Append(prev, k)

\* the first of the elements that pass a loop's test (the loop breaks
\* there), as a one-element list, or the empty list
FirstOf(hits) == IF hits = <<>> THEN <<>> ELSE <<hits[1]>>

\* Strategy 1: match by date + team names
RECURSIVE strategy1(_, _, _)
strategy1(result, dates, used) ==
    IF dates = <<>> THEN <<>>
    ELSE LET hit == FirstOf(SelectSeq(lineups_by_date(Head(dates)),
                        LAMBDA lu : /\ ~IsUsed(lu, used)
                                    /\ teams_match(lu.team_a, lu.team_b,
                                                   result.team_a, result.team_b)))
         IN  IF hit # <<>> THEN hit ELSE strategy1(result, Tail(dates), used)

RECURSIVE FlattenKeys(_, _)
FlattenKeys(keys, rkey) ==
    IF keys = <<>> THEN <<>>
    ELSE LET k == Head(keys)
             take == \/ (fuzzy_team_match(k[1], rkey[1]) /\ fuzzy_team_match(k[2], rkey[2]))
                     \/ (fuzzy_team_match(k[1], rkey[2]) /\ fuzzy_team_match(k[2], rkey[1]))
         IN  (IF take THEN lineups_by_teams(k) ELSE <<>>) \o FlattenKeys(Tail(keys), rkey)

\* Strategy 2: team name matching across all lineups, within 7 days
strategy2(result, used) ==
    LET result_team_key == SortedPair(normalize_team_name(result.team_a),
                                      normalize_team_name(result.team_b))
        exact == lineups_by_teams(result_team_key)
        candidate_lineups ==
            IF exact # <<>> THEN exact
            ELSE FlattenKeys(team_keys(Len(lineups)), result_team_key)
    IN  FirstOf(SelectSeq(candidate_lineups,
            LAMBDA lu : /\ ~IsUsed(lu, used)
                        /\ HasDate(lu.game_date) /\ HasDate(result.game_date)
                        /\ Abs(FromIso(result.game_date) - FromIso(lu.game_date)) <= 7))

\* the lineup matched to a result: a one-element list, or empty
matched_lineup(result, used) ==
    LET s1 == strategy1(result, potential_dates(result), used)
    IN  IF s1 # <<>> THEN s1 ELSE strategy2(result, used)

teams_swapped(lu, result) ==
    LET la_norm == normalize_team_name(lu.team_a)
        ra_norm == normalize_team_name(result.team_a)
        rb_norm == normalize_team_name(result.team_b)
    IN  la_norm # ra_norm /\ (IsSubstr(la_norm, rb_norm) \/ IsSubstr(rb_norm, la_norm))

\* a swap that exchanges the team names of the winner
SwappedWinnerByName(winner) ==
    IF winner = "A" THEN "team_b" ELSE IF winner = "B" THEN "team_a" ELSE "None"

\* winner under a swap: "B" if winner == "A" else "A" if winner == "B" else None
SwappedWinner(winner) ==
    IF winner = "A" THEN "B" ELSE IF winner = "B" THEN "A" ELSE "None"

\* the CompleteGame of a result, with or without its matched lineup
GameOfResult(result, m, id) ==
    IF m # <<>>
    THEN LET lu == m[1]
             swapped == teams_swapped(lu, result)
         IN  [game_id |-> id, game_date |-> lu.game_date,
              team_a |-> lu.team_a, team_b |-> lu.team_b,
              captain_a |-> IF ~swapped THEN lu.captain_a ELSE lu.captain_b,
              captain_b |-> IF ~swapped THEN lu.captain_b ELSE lu.captain_a,
              players_a |-> IF ~swapped THEN lu.players_a ELSE lu.players_b,
              players_b |-> IF ~swapped THEN lu.players_b ELSE lu.players_a,
              score_a |-> IF ~swapped THEN result.score_a ELSE result.score_b,
              score_b |-> IF ~swapped THEN result.score_b ELSE result.score_a,
              winner |-> IF ~swapped THEN result.winner
                         ELSE SwappedWinner(result.winner),
              adjustment_a |-> IF ~swapped THEN result.adjustment_a
                               ELSE result.adjustment_b,
              adjustment_b |-> IF ~swapped THEN result.adjustment_b
                               ELSE result.adjustment_a,
              seed_a |-> IF ~swapped THEN lu.seed_a ELSE lu.seed_b,
              seed_b |-> IF ~swapped THEN lu.seed_b ELSE lu.seed_a,
              lineup_comment_id |-> lu.comment_id,
              result_comment_id |-> result.comment_id]
    ELSE [game_id |-> id, game_date |-> result.game_date,
          team_a |-> result.team_a, team_b |-> result.team_b,
          captain_a |-> "None", captain_b |-> "None",
          players_a |-> <<>>, players_b |-> <<>>,
          score_a |-> result.score_a, score_b |-> result.score_b,
          winner |-> result.winner,
          adjustment_a |-> result.adjustment_a,
          adjustment_b |-> result.adjustment_b,
          seed_a |-> result.seed_a, seed_b |-> result.seed_b,
          lineup_comment_id |-> NoId,
          result_comment_id |-> result.comment_id]

\* the CompleteGame of a lineup without result
GameOfLineup(lu, id) ==
    [game_id |-> id, game_date |-> lu.game_date,
     team_a |-> lu.team_a, team_b |-> lu.team_b,
     captain_a |-> lu.captain_a, captain_b |-> lu.captain_b,
     players_a |-> lu.players_a, players_b |-> lu.players_b,
     score_a |-> NoneScore, score_b |-> NoneScore,
     winner |-> "None",
     adjustment_a |-> NoneScore, adjustment_b |-> NoneScore,
     seed_a |-> lu.seed_a, seed_b |-> lu.seed_b,
     lineup_comment_id |-> lu.comment_id,
     result_comment_id |-> NoId]

InitLink ==
    /\ ResIdle /\ IdIdle /\ FnIdle /\ AppIdle
    /\ lineups \in { WithIds(s) : s \in SeqsUpTo(LineupPool, MaxLineups) }
    /\ results \in { WithIds(s) : s \in SeqsUpTo(ResultPool, MaxResults) }
    /\ games = <<>>
    /\ used_lineup_ids = {}
    /\ game_id = 1
    /\ ri = 1
    /\ li = 1
    /\ single_team_results = <<>>
    /\ leaderboard_scores = <<>>
    /\ stage = "link"
    /\ bi = 1

\* one iteration of  for result in results
LinkResult ==
    /\ stage = "link"
    /\ ri <= Len(results)
    /\ LET result == results[ri]
           m == matched_lineup(result, used_lineup_ids)
       IN  /\ used_lineup_ids' =
                IF m # <<>> THEN used_lineup_ids \cup {m[1].comment_id}
                ELSE used_lineup_ids
           /\ games' = Append(games, GameOfResult(result, m, game_id))
    /\ game_id' = game_id + 1
    /\ ri' = ri + 1
    /\ UNCHANGED <<appVars, lineups, results, li, runVars, resVars, idVars, fnVars>>

\* a final loop with the test inverted
IsUnmatchedInverted(lu, used) == lu.comment_id \in used

\* lu.comment_id not in used_lineup_ids  (the test of the final loop)
IsUnmatched(lu, used) == lu.comment_id \notin used

\* one iteration of the final  for lu in lineups
AddUnmatchedLineup ==
    /\ stage = "link"
    /\ ri > Len(results)
    /\ li <= Len(lineups)
    /\ IF IsUnmatched(lineups[li], used_lineup_ids)
       THEN /\ games' = Append(games, GameOfLineup(lineups[li], game_id))
            /\ game_id' = game_id + 1
       ELSE UNCHANGED <<games, game_id>>
    /\ li' = li + 1
    /\ UNCHANGED <<appVars, lineups, results, used_lineup_ids, ri, runVars, resVars, idVars,
                   fnVars>>

\* link_results_to_lineups has returned
LinkDone == ri > Len(results) /\ li > Len(lineups)

NextLink == LinkResult \/ AddUnmatchedLineup

SpecLink == InitLink /\ [][NextLink]_vars

\* the games that reference lineup id / result id
GamesOfLineup(id) == { g \in 1..Len(games) : games[g].lineup_comment_id = id }
GamesOfResult(id) == { g \in 1..Len(games) : games[g].result_comment_id = id }

\* C1: each Lineup is referenced by at most one CompleteGame; a lineup
\* referenced by a result's game is marked consumed, and a consumed lineup is
\* not emitted as a lineup-only game.
C1_NoDoubleConsumption ==
    /\ \A i \in 1..Len(lineups) :
            Cardinality(GamesOfLineup(lineups[i].comment_id)) <= 1
    /\ \A g \in 1..Len(games) :
            (games[g].lineup_comment_id # NoId /\ games[g].result_comment_id # NoId)
                => games[g].lineup_comment_id \in used_lineup_ids
    /\ \A g \in 1..Len(games) :
            (games[g].lineup_comment_id # NoId /\ games[g].result_comment_id = NoId)
                => games[g].lineup_comment_id \notin used_lineup_ids

\* C1 witness: the run is over, a lineup was consumed by one result, and a
\* later result that would have selected the same lineup, had it been
\* unconsumed, became a result-only game.
C1_Witness ==
    /\ LinkDone
    /\ \E g1, g2 \in 1..Len(games) :
         /\ g1 < g2
         /\ games[g1].lineup_comment_id # NoId
         /\ games[g1].result_comment_id # NoId
         /\ games[g2].result_comment_id # NoId
         /\ games[g2].lineup_comment_id = NoId
         /\ LET m == matched_lineup(results[games[g2].result_comment_id], {})
            IN  m # <<>> /\ m[1].comment_id = games[g1].lineup_comment_id

\* C9: no record is dropped: every processed Result has exactly one game,
\* every unprocessed one none; when the run is over every unconsumed Lineup
\* has exactly one (lineup-only) game, every consumed one exactly one game
\* (its result's), and the number of games is the number of Results plus the
\* number of unconsumed Lineups.
C9_NoRecordDropped ==
    /\ \A r \in 1..Len(results) :
            Cardinality(GamesOfResult(results[r].comment_id)) = (IF r < ri THEN 1 ELSE 0)
    /\ LinkDone =>
          /\ \A i \in 1..Len(lineups) :
                \E g \in 1..Len(games) :
                   /\ GamesOfLineup(lineups[i].comment_id) = {g}
                   /\ (lineups[i].comment_id \notin used_lineup_ids)
                         <=> (games[g].result_comment_id = NoId)
          /\ Len(games) = Len(results)
                + Cardinality({ i \in 1..Len(lineups) :
                                  lineups[i].comment_id \notin used_lineup_ids })

\* C9 witness: a finished run with a full game, a result-only game and a
\* lineup-only game.
C9_Witness ==
    /\ LinkDone
    /\ \E g \in 1..Len(games) :
         games[g].lineup_comment_id # NoId /\ games[g].result_comment_id # NoId
    /\ \E g \in 1..Len(games) :
         games[g].lineup_comment_id = NoId /\ games[g].result_comment_id # NoId
    /\ \E g \in 1..Len(games) :
         games[g].lineup_comment_id # NoId /\ games[g].result_comment_id = NoId

(***************************************************************************)
(* extract_game_result_data: the winner of a result post                    *)
(***************************************************************************)
\* truthiness of an Optional[float]: None and 0.0 are false
Truthy(score) == ~score.none /\ score.val # 0

DigitVal(c) ==
    CASE c = "0" -> 0 [] c = "1" -> 1 [] c = "2" -> 2 [] c = "3" -> 3
      [] c = "4" -> 4 [] c = "5" -> 5 [] c = "6" -> 6 [] c = "7" -> 7
      [] c = "8" -> 8 [] OTHER -> 9

RECURSIVE DecimalVal(_)
DecimalVal(ds) ==
    IF ds = <<>> THEN 0
    ELSE 10 * DecimalVal(SubSeq(ds, 1, Len(ds) - 1)) + DigitVal(ds[Len(ds)])

\* parse_score: float(score_str.replace(",", "")), None on ValueError
parse_score(score_str) ==
    LET digits == SelectSeq(score_str, LAMBDA c : c # ",")
    IN  IF score_str = <<>> \/ digits = <<>> THEN NoneScore
        ELSE SomeScore(DecimalVal(digits))

\* detect_winner: the win indicator is searched first
detect_winner(trailing) ==
    IF "win" \in trailing THEN "win"
    ELSE IF "loss" \in trailing THEN "loss"
    ELSE "None"

\* parse_result_line on a line RESULT_FULL_RE matches
parse_result_line(ln) ==
    [team |-> ln.team, score |-> parse_score(ln.score_str),
     winner |-> detect_winner(ln.trailing)]

ScoreStrs ==
    { <<"0">>, <<"3", "4", ",", "5", "6", "5">>, <<"3", "8", ",", "0", "0", "0">>,
      <<",">> }

\* the lines a post is drawn from.  kind says which pattern the line
\* matches: RESULT_FULL_RE ("result"), SEPARATOR_RE ("separator"), or none
\* ("other"); round / adjhdr say whether ROUND_NAME_RE / ADJUSTMENT_HEADER_RE
\* find a match in it; trailing holds the win / loss indicators found in the
\* text after the score.
LinePool ==
    { [kind |-> "result", round |-> FALSE, adjhdr |-> FALSE, team |-> t,
       score_str |-> sc, trailing |-> tr] :
         t \in {Ab}, sc \in ScoreStrs, tr \in SUBSET {"win", "loss"} }
    \cup
    { [kind |-> "result", round |-> TRUE, adjhdr |-> FALSE, team |-> Cc,
       score_str |-> <<"0">>, trailing |-> {"win"}],
      [kind |-> "result", round |-> FALSE, adjhdr |-> TRUE, team |-> Cc,
       score_str |-> <<"0">>, trailing |-> {"win"}],
      [kind |-> "separator", round |-> FALSE, adjhdr |-> FALSE, team |-> <<>>,
       score_str |-> <<>>, trailing |-> {}],
      [kind |-> "other", round |-> TRUE, adjhdr |-> FALSE, team |-> <<>>,
       score_str |-> <<>>, trailing |-> {}] }

\* the loop over the lines: result_lines, with round_name set or not
RECURSIVE ScanLines(_, _, _)
ScanLines(lns, result_lines, has_round) ==
    IF lns = <<>> THEN result_lines
    ELSE LET ln == Head(lns)
         IN  IF result_lines = <<>> /\ ~has_round /\ ln.round
             THEN ScanLines(Tail(lns), result_lines, TRUE)
             ELSE IF ln.kind = "separator" \/ ln.adjhdr
             THEN ScanLines(Tail(lns), result_lines, has_round)
             ELSE IF ln.kind = "result"
             THEN ScanLines(Tail(lns), Append(result_lines, parse_result_line(ln)),
                            has_round)
             ELSE ScanLines(Tail(lns), result_lines, has_round)

\* the winner of the first two result lines
DetermineWinner(team_a_data, team_b_data) ==
    IF team_a_data.winner = "win" THEN "A"
    ELSE IF team_b_data.winner = "win" THEN "B"
    ELSE IF team_a_data.winner = "loss" THEN "B"
    ELSE IF team_b_data.winner = "loss" THEN "A"
    ELSE IF Truthy(team_a_data.score) /\ Truthy(team_b_data.score)
    THEN (IF team_a_data.score.val > team_b_data.score.val THEN "A"
          ELSE IF team_b_data.score.val > team_a_data.score.val THEN "B"
          ELSE "None")
    ELSE "None"

extract_game_result_data(lns) ==
    LET result_lines == ScanLines(lns, <<>>, FALSE)
    IN  IF Len(result_lines) < 2 THEN [status |-> "None"]
        ELSE [status |-> "result",
              team_a_data |-> result_lines[1],
              team_b_data |-> result_lines[2],
              team_a |-> result_lines[1].team,
              team_b |-> result_lines[2].team,
              score_a |-> result_lines[1].score,
              score_b |-> result_lines[2].score,
              winner |-> DetermineWinner(result_lines[1], result_lines[2])]

InitRes ==
    /\ LinkIdle /\ IdIdle /\ FnIdle /\ AppIdle
    /\ text_lines \in SeqsUpTo(LinePool, MaxLines)
    /\ extracted = [status |-> "idle"]

ExtractGameResultData ==
    /\ extracted.status = "idle"
    /\ extracted' = extract_game_result_data(text_lines)
    /\ UNCHANGED <<appVars, text_lines, linkVars, idVars, fnVars>>

NextRes == ExtractGameResultData

SpecRes == InitRes /\ [][NextRes]_vars

\* the winners the stated precedence allows for two parsed lines: a side
\* carrying a win glyph; else a side opposite a loss glyph; else the side
\* with the strictly higher parsed score; null only when none applies
StatedWinners(a, b) ==
    IF a.winner = "win" \/ b.winner = "win"
    THEN (IF a.winner = "win" THEN {"A"} ELSE {}) \cup
         (IF b.winner = "win" THEN {"B"} ELSE {})
    ELSE IF a.winner = "loss" \/ b.winner = "loss"
    THEN (IF a.winner = "loss" THEN {"B"} ELSE {}) \cup
         (IF b.winner = "loss" THEN {"A"} ELSE {})
    ELSE IF ~a.score.none /\ ~b.score.none /\ a.score.val > b.score.val THEN {"A"}
    ELSE IF ~a.score.none /\ ~b.score.none /\ b.score.val > a.score.val THEN {"B"}
    ELSE {"None"}

\* C8: the winner of an extracted result follows the stated precedence
\* (win glyph, then loss glyph, then strictly higher score, else null) for
\* every combination of glyphs and of parsed scores, 0 included.
C8_WinnerPrecedence ==
    extracted.status = "result" =>
        extracted.winner \in StatedWinners(extracted.team_a_data, extracted.team_b_data)

(***************************************************************************)
(* Handle resolution: the external sources and the input                    *)
(***************************************************************************)
\* game dates, as day numbers (ISO date strings compare as the days do)
Dates == {1, 2}

Ids == {"u1", "u2"}

\* player.get("player_id") is None
NoUser == ""

Aba == <<"a", "b", "a">>
Abab == <<"a", "b", "a", "b">>
Dd == <<"d">>

\* the row of a user on a date, when the user is ranked that date
RowChoices(id) ==
    IF id = "u1"
    THEN { [user_id |-> "u1", username |-> Aba, rank |-> 100] }
    ELSE { [user_id |-> "u2", username |-> Aba, rank |-> 100],
           [user_id |-> "u2", username |-> Abab, rank |-> 130] }

\* the tables of one date: a row or none for u1, then for u2
DayRows ==
    { r1 \o r2 : r1 \in { <<>> } \cup { <<r>> : r \in RowChoices("u1") },
                 r2 \in { <<>> } \cup { <<r>> : r \in RowChoices("u2") } }

\* a roster entry as loaded, before any phase has written to it
Entry(handle, game_date, ranking, player_id) ==
    [handle |-> handle, game_date |-> game_date, ranking |-> ranking,
     player_id |-> player_id,
     karma_rank |-> 0, match |-> "none", confidence |-> "none",
     uncertain |-> FALSE, verified |-> FALSE, rejected |-> FALSE]

\* the roster entries the model draws from; ranking 0 is "no ranking"
EntryPool ==
    { Entry(Aba, 1, 100, NoUser),
      Entry(<<"A", "b", "a">>, 2, 100, NoUser),
      Entry(Cc, 1, 0, "u1"),
      Entry(Dd, 1, 100, NoUser), Entry(Dd, 2, 100, NoUser) }

MaxPlayers == 2

\* the handle-to-id file: the handles with an externally known id
existing_mappings == { Cc }

\* sorted(set(game["game_date"] for game in self.games))
RECURSIVE SortedSeq(_)
SortedSeq(S) ==
    IF S = {} THEN <<>>
    ELSE LET m == CHOOSE x \in S : \A y \in S : x <= y
         IN  <<m>> \o SortedSeq(S \ {m})

GameDates == SortedSeq({ players[k].game_date : k \in 1..Len(players) })

\* a dict as a function, and its update
DictPut(d, k, v) == [x \in DOMAIN d \cup {k} |-> IF x = k THEN v ELSE d[x]]

\* saturating counter (the model's cap on counting)
MaxCount == 3
Inc(n) == IF n < MaxCount THEN n + 1 ELSE n

(***************************************************************************)
(* fetch_karma_for_date / fetch_all_karma_data                              *)
(***************************************************************************)
NotCached == [present |-> FALSE, rows |-> <<>>]
Cached(rows) == [present |-> TRUE, rows |-> rows]

\* .order("rank"): the rows by ascending rank, ties in table order
RECURSIVE OrderByRank(_)
OrderByRank(rows) ==
    IF rows = <<>> THEN <<>>
    ELSE LET k == CHOOSE i \in 1..Len(rows) :
                     \A j \in 1..Len(rows) :
                        \/ rows[i].rank < rows[j].rank
                        \/ (rows[i].rank = rows[j].rank /\ i <= j)
         IN  <<rows[k]>> \o
             OrderByRank(SubSeq(rows, 1, k - 1) \o SubSeq(rows, k + 1, Len(rows)))

\* fetch_karma_for_date(date_str) of KarmaMatcher and S6Reconstructor, with
\* the outcome ok of the query if one is issued: [cache, requests, result]
fetch_karma_for_date(date_str, ok, cache, reqs) ==
    IF cache[date_str].present
    THEN [cache |-> cache, requests |-> reqs, result |-> cache[date_str].rows]
    ELSE IF ~supabase
    THEN [cache |-> cache, requests |-> reqs, result |-> <<>>]
    ELSE IF ok
    THEN [cache |-> [cache EXCEPT ![date_str] = Cached(source[date_str])],
          requests |-> [reqs EXCEPT ![date_str] = Inc(@)],
          result |-> source[date_str]]
    ELSE [cache |-> cache,
          requests |-> [reqs EXCEPT ![date_str] = Inc(@)],
          result |-> <<>>]

\* the row of a user in a karma map, as a one-element list, or <<>>
RowOf(rows, user_id) == SelectSeq(rows, LAMBDA r : r.user_id = user_id)

(***************************************************************************)
(* difflib.SequenceMatcher(None, a, b).ratio()                              *)
(***************************************************************************)
\* find_longest_match: the longest common block, earliest in a, then in b
LongestMatch(a, b) ==
    LET blocks == { blk \in (1..Len(a)) \X (1..Len(b)) \X (1..Len(a)) :
                      /\ blk[1] + blk[3] - 1 <= Len(a)
                      /\ blk[2] + blk[3] - 1 <= Len(b)
                      /\ SubSeq(a, blk[1], blk[1] + blk[3] - 1)
                           = SubSeq(b, blk[2], blk[2] + blk[3] - 1) }
    IN  IF blocks = {} THEN <<0, 0, 0>>
        ELSE CHOOSE x \in blocks :
               \A y \in blocks :
                  \/ x[3] > y[3]
                  \/ (x[3] = y[3] /\ x[1] < y[1])
                  \/ (x[3] = y[3] /\ x[1] = y[1] /\ x[2] <= y[2])

\* the sum of the sizes of get_matching_blocks()
RECURSIVE MatchCount(_, _)
MatchCount(a, b) ==
    IF a = <<>> \/ b = <<>> THEN 0
    ELSE LET m == LongestMatch(a, b)
         IN  IF m[3] = 0 THEN 0
             ELSE m[3]
                  + MatchCount(SubSeq(a, 1, m[1] - 1), SubSeq(b, 1, m[2] - 1))
                  + MatchCount(SubSeq(a, m[1] + m[3], Len(a)),
                               SubSeq(b, m[2] + m[3], Len(b)))

\* ratio() = 2.0 * M / T, kept as the fraction <<2M, T>>
Ratio(a, b) ==
    IF Len(a) + Len(b) = 0 THEN <<1, 1>>
    ELSE <<2 * MatchCount(a, b), Len(a) + Len(b)>>

\* r > q for fractions with positive denominators
RatioGt(r, q) == r[1] * q[2] > q[1] * r[2]

(***************************************************************************)
(* the username index                                                       *)
(***************************************************************************)
\* the rows of the cached dates, in the order the dates were fetched
RECURSIVE CachedRows(_, _)
CachedRows(cache, dates) ==
    IF dates = <<>> THEN <<>>
    ELSE (IF cache[Head(dates)].present THEN cache[Head(dates)].rows ELSE <<>>)
         \o CachedRows(cache, Tail(dates))

\* entry.get("username", "").lower().strip()
IndexName(row) == Strip(Lower(row.username))

\* the keys of username_index / username_to_id, in insertion order
RECURSIVE IndexNames(_)
IndexNames(rows) ==
    IF rows = <<>> THEN <<>>
    ELSE LET prev == IndexNames(SubSeq(rows, 1, Len(rows) - 1))
             u == IndexName(rows[Len(rows)])
         IN  IF u = <<>> \/ \E k \in 1..Len(prev) : prev[k] = u
             THEN prev ELSE Append(prev, u)

\* username_index[username]: the set of user ids under a username
IndexIds(rows, username) ==
    { rows[k].user_id : k \in { n \in 1..Len(rows) : IndexName(rows[n]) = username } }

(***************************************************************************)
(* build_player_profiles                                                    *)
(***************************************************************************)
\* the keys of profiles, in insertion order
RECURSIVE ProfileHandles(_)
ProfileHandles(ps) ==
    IF ps = <<>> THEN <<>>
    ELSE LET prev == ProfileHandles(SubSeq(ps, 1, Len(ps) - 1))
             p == ps[Len(ps)]
             handle == Lower(p.handle)
         IN  IF \/ handle \in existing_mappings
                \/ p.player_id # NoUser
                \/ \E k \in 1..Len(prev) : prev[k] = handle
             THEN prev ELSE Append(prev, handle)

SetMax(S) == CHOOSE x \in S : \A y \in S : y <= x

\* profiles[handle]["rankings"]: date -> ranking (a later game of the same
\* date overwrites; a ranking of 0 or None is not recorded)
Rankings(ps, handle) ==
    LET idx(d) == { k \in 1..Len(ps) : /\ Lower(ps[k].handle) = handle
                                      /\ ps[k].player_id = NoUser
                                      /\ ps[k].game_date = d
                                      /\ ps[k].ranking # 0 }
    IN  [d \in { x \in Dates : idx(x) # {} } |-> ps[SetMax(idx(d))].ranking]

(***************************************************************************)
(* a discovery record                                                       *)
(***************************************************************************)
\* {user_id, confidence, method} (KarmaMatcher stores the user id alone)
Record(user_id, confidence, method) ==
    [user_id |-> user_id, confidence |-> confidence, method |-> method]

(***************************************************************************)
(* strategy_username_match / discover_by_username                           *)
(***************************************************************************)
\* ratio > 0.85, > 0.9, > 0.95
FuzzyThreshold == <<85, 100>>
MediumThreshold == <<90, 100>>
HighThreshold == <<95, 100>>

\* len(user_ids) > 1: the username is skipped by the fuzzy loop
IsAmbiguousNever(user_ids) == FALSE
IsAmbiguous(user_ids) == Cardinality(user_ids) > 1

\* the usernames that pass  ratio > 0.85  in the fuzzy loop, in index order
FuzzyNames(handle_lower, rows) ==
    SelectSeq(IndexNames(rows),
              LAMBDA u : /\ ~IsAmbiguous(IndexIds(rows, u))
                         /\ RatioGt(Ratio(handle_lower, u), FuzzyThreshold))

\* best_match after the loop: the first username of the highest ratio, as a
\* list of at most one element
BestFuzzy(handle_lower, rows) ==
    LET c == FuzzyNames(handle_lower, rows)
    IN  IF c = <<>> THEN <<>>
        ELSE LET k == CHOOSE i \in 1..Len(c) :
                         \A j \in 1..Len(c) :
                            /\ ~RatioGt(Ratio(handle_lower, c[j]),
                                        Ratio(handle_lower, c[i]))
                            /\ (j < i => RatioGt(Ratio(handle_lower, c[i]),
                                                 Ratio(handle_lower, c[j])))
             IN  <<c[k]>>

\* the exact-match branch is taken
ExactMatch(handle_lower, rows) ==
    /\ \E k \in 1..Len(IndexNames(rows)) : IndexNames(rows)[k] = handle_lower
    /\ Cardinality(IndexIds(rows, handle_lower)) = 1

\* PlayerDiscovery: "medium" if best_ratio > 0.9 else "low"
pd_confidence(ratio) == IF RatioGt(ratio, MediumThreshold) THEN "medium" ELSE "low"

\* S6Reconstructor: "high" if > 0.95 else ("medium" if > 0.9 else "low")
s6_confidence(ratio) ==
    IF RatioGt(ratio, HighThreshold) THEN "high"
    ELSE IF RatioGt(ratio, MediumThreshold) THEN "medium" ELSE "low"

\* the record strategy_username_match may store for a handle: list(ids)[0]
\* is any element of ids; the empty set when the handle finds no match
strategy_username_match(handle_lower, rows) ==
    IF ExactMatch(handle_lower, rows)
    THEN { Record(id, "high", "username_exact") :
              id \in IndexIds(rows, handle_lower) }
    ELSE LET best == BestFuzzy(handle_lower, rows)
         IN  IF best = <<>> THEN {}
             ELSE { Record(id, pd_confidence(Ratio(handle_lower, best[1])),
                           "username_fuzzy") :
                       id \in IndexIds(rows, best[1]) }

\* what discover_by_username may return for a handle, as records
discover_by_username(handle, rows) ==
    LET handle_lower == Lower(handle)
    IN  IF ExactMatch(handle_lower, rows)
        THEN { Record(id, "high", "username") :
                  id \in IndexIds(rows, handle_lower) }
        ELSE LET best == BestFuzzy(handle_lower, rows)
             IN  IF best = <<>> THEN {}
                 ELSE { Record(id, s6_confidence(Ratio(handle_lower, best[1])),
                               "username") :
                           id \in IndexIds(rows, best[1]) }

(***************************************************************************)
(* strategy_rank_pattern                                                    *)
(***************************************************************************)
\* rank_diff <= 30 in strategy_rank_pattern
PatternTolerance == 30

\* rank_diff <= 50 when run_all_strategies collects candidates
CollectTolerance == 50

\* the user ids of rows whose rank is within tol of expected_rank
Candidates(rows, expected_rank, tol) ==
    { rows[k].user_id :
        k \in { n \in 1..Len(rows) : Abs(rows[n].rank - expected_rank) <= tol } }

\* self.karma_by_date.get(date_str, [])
RowsOf(cache, date_str) ==
    IF cache[date_str].present THEN cache[date_str].rows ELSE <<>>

\* total_deviation of a candidate over the dates of rankings
RECURSIVE TotalDeviation(_, _, _, _)
TotalDeviation(candidate, rankings, dates, cache) ==
    IF dates = {} THEN 0
    ELSE LET d == CHOOSE x \in dates : TRUE
             r == RowOf(RowsOf(cache, d), candidate)
         IN  (IF r = <<>> THEN 0 ELSE Abs(r[1].rank - rankings[d]))
             + TotalDeviation(candidate, rankings, dates \ {d}, cache)

\* the record strategy_rank_pattern may store for a handle (the candidates
\* are iterated in set order, so any candidate of least deviation may win)
strategy_rank_pattern(handle, ps, cache) ==
    LET rankings == Rankings(ps, handle)
        fetched == { d \in DOMAIN rankings : cache[d].present }
        common == { id \in Ids :
                      \A d \in fetched :
                         id \in Candidates(cache[d].rows, rankings[d],
                                           PatternTolerance) }
        total(id) == TotalDeviation(id, rankings, DOMAIN rankings, cache)
    IN  IF Cardinality(DOMAIN rankings) < 2 \/ fetched = {} THEN {}
        ELSE IF Cardinality(common) = 1
        THEN { Record(id, "high", "rank_pattern") : id \in common }
        ELSE { Record(id, "medium", "rank_pattern") :
                  id \in { c \in common :
                             \A o \in common : total(c) <= total(o) } }

\* the candidates run_all_strategies collects for a handle
RemainingCandidates(handle, ps, cache) ==
    LET rankings == Rankings(ps, handle)
    IN  UNION { Candidates(cache[d].rows, rankings[d], CollectTolerance) :
                  d \in { x \in DOMAIN rankings : cache[x].present } }

\* list(S): the elements of a set in some order
Perms(S) ==
    { q \in UNION { [1..n -> S] : n \in {Cardinality(S)} } :
        \A i, j \in 1..Len(q) : q[i] = q[j] => i = j }

(***************************************************************************)
(* discover_by_rank of KarmaMatcher and S6Reconstructor                     *)
(***************************************************************************)
\* DEFAULT_RANK_TOLERANCE / rank_tolerance: int = 50
DEFAULT_RANK_TOLERANCE == 50

\* candidates.sort(key=lambda x: x[2]): a stable sort by rank_diff
RECURSIVE SortByRankDiff(_, _)
SortByRankDiff(cands, weekly_ranking) ==
    IF cands = <<>> THEN <<>>
    ELSE LET diff(n) == Abs(cands[n].rank - weekly_ranking)
             k == CHOOSE i \in 1..Len(cands) :
                     \A j \in 1..Len(cands) :
                        diff(i) < diff(j) \/ (diff(i) = diff(j) /\ i <= j)
         IN  <<cands[k]>> \o
             SortByRankDiff(SubSeq(cands, 1, k - 1)
                              \o SubSeq(cands, k + 1, Len(cands)),
                            weekly_ranking)

\* the username test that prefers a candidate: KarmaMatcher accepts equality
\* or containment either way, S6Reconstructor equality only
UsernameAgrees(script, handle, username) ==
    LET u == Lower(username)
        h == Lower(handle)
    IN  IF script = "km" THEN u = h \/ IsSubstr(h, u) \/ IsSubstr(u, h)
        ELSE u = h

\* discover_by_rank: a list holding [user_id, rank, uncertain], or empty
discover_by_rank(script, handle, weekly_ranking, rows, known_ids) ==
    LET candidates ==
            SortByRankDiff(
                SelectSeq(rows,
                    LAMBDA r : /\ r.user_id \notin known_ids
                               /\ Abs(r.rank - weekly_ranking)
                                    <= DEFAULT_RANK_TOLERANCE),
                weekly_ranking)
        agreeing == SelectSeq(candidates,
                       LAMBDA r : UsernameAgrees(script, handle, r.username))
        Hit(r, uncertain) ==
            <<[user_id |-> r.user_id, rank |-> r.rank, uncertain |-> uncertain]>>
    IN  IF candidates = <<>> THEN <<>>
        ELSE IF agreeing # <<>> THEN Hit(agreeing[1], FALSE)
        ELSE IF Len(candidates) = 1 THEN Hit(candidates[1], FALSE)
        ELSE Hit(candidates[1], TRUE)

\* handle.lower() in self.discovered_ids
AlreadyDiscoveredNever(handle, discovered_ids) == FALSE
AlreadyDiscovered(handle, discovered_ids) ==
    Lower(handle) \in DOMAIN discovered_ids

(***************************************************************************)
(* fetch_ranked_days / _fetch_ranked_days                                   *)
(***************************************************************************)
\* the day "2025-03-01" of  oldest_date < "2025-03-01"
SeasonStart == 1

\* a day before the season
PreSeason == 0

\* the non-empty pages the history source may answer with
PagePool ==
    { << [day |-> 1, rank |-> 100] >>,
      << [day |-> 2, rank |-> 125] >>,
      << [day |-> PreSeason, rank |-> 100] >> }

\* the answers to one page request
Responses ==
    { [ok |-> FALSE, days |-> <<>>] }
      \cup { [ok |-> TRUE, days |-> d] : d \in PagePool \cup { <<>> } }

\* the model keeps the first MaxHist entries of all_data
MaxHist == 1

\* all_data.extend(days)
Extend(all_data, days) ==
    LET all == all_data \o days
    IN  IF Len(all) <= MaxHist THEN all ELSE SubSeq(all, 1, MaxHist)

\* the scripts whose loop stops at a page older than the season start
HasSeasonLimit(script) == script \in {"pd", "s6"}

\* oldest_date = None
NoDay == -1

NoFetch == [active |-> FALSE, user_id |-> NoUser, all_data |-> <<>>,
            oldest_date |-> NoDay, failed |-> FALSE]

\* all_data = [] on entry to fetch_ranked_days(user_id) with no cache entry
StartFetch(user_id) ==
    [active |-> TRUE, user_id |-> user_id, all_data |-> <<>>,
     oldest_date |-> NoDay, failed |-> FALSE]

\* one iteration of  while True:  in fetch_ranked_days, the request answered
\* by any of Responses; after a break the data is cached and returned (the
\* record keeps the id and the outcome of the call that returned last)
FetchPage ==
    /\ fetch.active
    /\ \E resp \in Responses :
          LET ends == \/ ~resp.ok
                      \/ resp.days = <<>>
                      \/ /\ HasSeasonLimit(prog)
                         /\ resp.days[Len(resp.days)].day < SeasonStart
              all_data == IF resp.ok THEN Extend(fetch.all_data, resp.days)
                          ELSE fetch.all_data
              oldest_date == IF ends THEN NoDay
                             ELSE resp.days[Len(resp.days)].day
          IN  /\ fetch' = [fetch EXCEPT !.active = ~ends,
                                        !.all_data = all_data,
                                        !.oldest_date = oldest_date,
                                        !.failed = ~resp.ok]
              /\ ranked_days_cache' =
                    IF ends THEN DictPut(ranked_days_cache, fetch.user_id, all_data)
                    ELSE ranked_days_cache
    /\ UNCHANGED <<appVars, linkVars, resVars, fnVars, prog, supabase, source, players, pc,
                   karma_cache, requests, traversals, discoveries,
                   date_matched_ids, found, api>>

\* the first entry of ranked_days with day == game_date, as a list
DayOf(ranked_days, game_date) ==
    LET hits == SelectSeq(ranked_days, LAMBDA e : e.day = game_date)
    IN  IF hits = <<>> THEN <<>> ELSE <<hits[1]>>

\* abs(day_data["rank"] - karma_rank) <= 5
VerifyTolerance == 5

(***************************************************************************)
(* the runs: process_games, run_full_pipeline, run_all_strategies           *)
(***************************************************************************)
\* entering a loop, and moving to its next entry
Enter(phase) == [phase |-> phase, i |-> 1, j |-> 1]
NextEntry == [pc EXCEPT !.i = @ + 1, !.j = 1]

InitId ==
    /\ LinkIdle /\ ResIdle /\ FnIdle /\ AppIdle
    /\ prog \in {"pd", "km", "s6"}
    /\ supabase \in BOOLEAN
    /\ source \in [Dates -> DayRows]
    /\ players \in SeqsUpTo(EntryPool, MaxPlayers) \ { <<>> }
    /\ pc = Enter(IF prog = "pd" THEN "fetch" ELSE "prefetch")
    /\ karma_cache = [d \in Dates |-> NotCached]
    /\ requests = [d \in Dates |-> 0]
    /\ ranked_days_cache = <<>>
    /\ traversals = [id \in Ids |-> 0]
    /\ fetch = NoFetch
    /\ discoveries = <<>>
    /\ date_matched_ids = [d \in Dates |-> {}]
    /\ found = [username |-> <<>>, rank |-> <<>>, api |-> <<>>]
    /\ api = [handles |-> <<>>, candidates |-> <<>>, best |-> <<>>]

\* for date_str in sorted(unique_dates): self.fetch_karma_for_date(date_str)
Prefetch ==
    /\ prog \in {"km", "s6"} /\ pc.phase = "prefetch"
    /\ IF pc.i > Len(GameDates)
       THEN /\ pc' = Enter("phase1")
            /\ UNCHANGED <<karma_cache, requests>>
       ELSE \E ok \in BOOLEAN :
               LET f == fetch_karma_for_date(GameDates[pc.i], ok,
                                             karma_cache, requests)
               IN  /\ karma_cache' = f.cache
                   /\ requests' = f.requests
                   /\ pc' = NextEntry
    /\ UNCHANGED <<appVars, linkVars, resVars, fnVars, prog, supabase, source, players,
                   ranked_days_cache, traversals, fetch,
                   discoveries, date_matched_ids, found, api>>

\* the player after a karma entry was matched to it
Matched(p, user_id, rank, match_type, uncertain) ==
    [p EXCEPT !.player_id = user_id, !.karma_rank = rank,
              !.match = match_type, !.uncertain = uncertain]

\* KarmaMatcher phase 1, one player: match_player_direct
KmPhase1 ==
    /\ prog = "km" /\ pc.phase = "phase1"
    /\ IF pc.i > Len(players)
       THEN /\ pc' = Enter("phase2")
            /\ UNCHANGED <<players, karma_cache, requests, date_matched_ids>>
       ELSE LET p == players[pc.i]
            IN  IF p.player_id = NoUser
                THEN /\ pc' = NextEntry
                     /\ UNCHANGED <<players, karma_cache, requests,
                                    date_matched_ids>>
                ELSE \E ok \in BOOLEAN :
                        LET f == fetch_karma_for_date(p.game_date, ok,
                                                      karma_cache, requests)
                            karma == RowOf(f.result, p.player_id)
                        IN  /\ karma_cache' = f.cache
                            /\ requests' = f.requests
                            /\ pc' = NextEntry
                            /\ IF karma # <<>>
                               THEN /\ players' = [players EXCEPT ![pc.i] =
                                          Matched(p, p.player_id, karma[1].rank,
                                                  "direct", FALSE)]
                                    /\ date_matched_ids' =
                                          [date_matched_ids EXCEPT
                                             ![p.game_date] = @ \cup {p.player_id}]
                               ELSE /\ players' = [players EXCEPT
                                          ![pc.i].match = "outside_top_1000"]
                                    /\ UNCHANGED date_matched_ids
    /\ UNCHANGED <<appVars, linkVars, resVars, fnVars, prog, supabase, source,
                   ranked_days_cache, traversals, fetch,
                   discoveries, found, api>>

\* KarmaMatcher phase 2, one player: reuse of a discovery or discover_by_rank
KmPhase2 ==
    /\ prog = "km" /\ pc.phase = "phase2"
    /\ IF pc.i > Len(players)
       THEN /\ pc' = Enter("verify")
            /\ UNCHANGED <<players, karma_cache, requests, date_matched_ids,
                           discoveries>>
       ELSE LET p == players[pc.i]
            IN  IF p.player_id # NoUser \/ p.ranking = 0
                THEN /\ pc' = NextEntry
                     /\ UNCHANGED <<players, karma_cache, requests,
                                    date_matched_ids, discoveries>>
                ELSE \E ok \in BOOLEAN :
                        LET f == fetch_karma_for_date(p.game_date, ok,
                                                      karma_cache, requests)
                            player_id == discoveries[Lower(p.handle)].user_id
                            karma == RowOf(f.result, player_id)
                            result == discover_by_rank("km", p.handle, p.ranking,
                                         f.result, date_matched_ids[p.game_date])
                        IN  /\ karma_cache' = f.cache
                            /\ requests' = f.requests
                            /\ pc' = NextEntry
                            /\ IF AlreadyDiscovered(p.handle, discoveries)
                               THEN /\ UNCHANGED discoveries
                                    /\ IF karma # <<>>
                                       THEN /\ players' = [players EXCEPT ![pc.i] =
                                                  Matched(p, player_id, karma[1].rank,
                                                          "previously_discovered", FALSE)]
                                            /\ date_matched_ids' =
                                                  [date_matched_ids EXCEPT
                                                     ![p.game_date] = @ \cup {player_id}]
                                       ELSE UNCHANGED <<players, date_matched_ids>>
                               ELSE IF result # <<>>
                               THEN /\ players' = [players EXCEPT ![pc.i] =
                                          Matched(p, result[1].user_id, result[1].rank,
                                                  "rank_discovery", result[1].uncertain)]
                                    /\ discoveries' =
                                          DictPut(discoveries, Lower(p.handle),
                                                  Record(result[1].user_id, "none", "rank"))
                                    /\ date_matched_ids' =
                                          [date_matched_ids EXCEPT
                                             ![p.game_date] = @ \cup {result[1].user_id}]
                               ELSE UNCHANGED <<players, date_matched_ids, discoveries>>
    /\ UNCHANGED <<appVars, linkVars, resVars, fnVars, prog, supabase, source,
                   ranked_days_cache, traversals, fetch,
                   found, api>>

\* _verify_discoveries_with_api / process_phase4_verify, one player; the call
\* of fetch_ranked_days for an id with no cache entry starts the traversal,
\* and the player is judged once the history is returned
Verify ==
    /\ prog \in {"km", "s6"} /\ pc.phase = "verify" /\ ~fetch.active
    /\ IF pc.i > Len(players)
       THEN /\ pc' = Enter("done")
            /\ UNCHANGED <<players, fetch, traversals>>
       ELSE LET p == players[pc.i]
            IN  IF ~p.uncertain \/ p.player_id = NoUser
                THEN /\ pc' = NextEntry
                     /\ UNCHANGED <<players, fetch, traversals>>
                ELSE IF p.player_id \notin DOMAIN ranked_days_cache
                THEN /\ fetch' = StartFetch(p.player_id)
                     /\ traversals' = [traversals EXCEPT ![p.player_id] = Inc(@)]
                     /\ UNCHANGED <<players, pc>>
                ELSE LET day_data == DayOf(ranked_days_cache[p.player_id],
                                           p.game_date)
                     IN  /\ pc' = NextEntry
                         /\ UNCHANGED <<fetch, traversals>>
                         /\ players' =
                               IF day_data = <<>> THEN players
                               ELSE IF Abs(day_data[1].rank - p.karma_rank)
                                         <= VerifyTolerance
                               THEN [players EXCEPT ![pc.i].verified = TRUE]
                               ELSE [players EXCEPT
                                        ![pc.i].rejected = (prog = "km")]
    /\ UNCHANGED <<appVars, linkVars, resVars, fnVars, prog, supabase, source, karma_cache,
                   requests, ranked_days_cache, discoveries,
                   date_matched_ids, found, api>>

\* the rows username_to_id was built from (S6Reconstructor), and the rows of
\* karma_by_date.items() (PlayerDiscovery): the fetched dates in fetch order
IndexRows == CachedRows(karma_cache, GameDates)

\* S6Reconstructor phase 1, one player: match_direct
S6Phase1 ==
    /\ prog = "s6" /\ pc.phase = "phase1"
    /\ IF pc.i > Len(players)
       THEN /\ pc' = Enter("phase2")
            /\ UNCHANGED <<players, date_matched_ids>>
       ELSE LET p == players[pc.i]
                karma == RowOf(RowsOf(karma_cache, p.game_date), p.player_id)
            IN  /\ pc' = NextEntry
                /\ IF p.player_id = NoUser
                   THEN UNCHANGED <<players, date_matched_ids>>
                   ELSE IF karma # <<>>
                   THEN /\ players' = [players EXCEPT ![pc.i] =
                              Matched(p, p.player_id, karma[1].rank, "direct", FALSE)]
                        /\ date_matched_ids' =
                              [date_matched_ids EXCEPT
                                 ![p.game_date] = @ \cup {p.player_id}]
                   ELSE /\ players' = [players EXCEPT
                              ![pc.i].match = "outside_top_1000"]
                        /\ UNCHANGED date_matched_ids
    /\ UNCHANGED <<appVars, linkVars, resVars, fnVars, prog, supabase, source, karma_cache,
                   requests, ranked_days_cache, traversals, fetch, discoveries, found, api>>

\* process_phase2_username, one player
S6Phase2 ==
    /\ prog = "s6" /\ pc.phase = "phase2"
    /\ IF pc.i > Len(players)
       THEN /\ pc' = Enter("phase3")
            /\ UNCHANGED <<players, discoveries>>
       ELSE LET p == players[pc.i]
                result == discover_by_username(p.handle, IndexRows)
            IN  /\ pc' = NextEntry
                /\ IF p.player_id # NoUser \/ result = {}
                   THEN UNCHANGED <<players, discoveries>>
                   ELSE \E r \in result :
                           /\ players' = [players EXCEPT
                                 ![pc.i].player_id = r.user_id,
                                 ![pc.i].match = "username",
                                 ![pc.i].confidence = r.confidence]
                           /\ discoveries' =
                                 DictPut(discoveries, Lower(p.handle), r)
    /\ UNCHANGED <<appVars, linkVars, resVars, fnVars, prog, supabase, source, karma_cache,
                   requests, ranked_days_cache, traversals, fetch, date_matched_ids, found, api>>

\* process_phase3_rank, one player
S6Phase3 ==
    /\ prog = "s6" /\ pc.phase = "phase3"
    /\ IF pc.i > Len(players)
       THEN /\ pc' = Enter("verify")
            /\ UNCHANGED <<players, discoveries, date_matched_ids>>
       ELSE LET p == players[pc.i]
                rows == RowsOf(karma_cache, p.game_date)
                user_id == discoveries[Lower(p.handle)].user_id
                karma == RowOf(rows, user_id)
                result == discover_by_rank("s6", p.handle, p.ranking, rows,
                                           date_matched_ids[p.game_date])
            IN  /\ pc' = NextEntry
                /\ IF p.player_id # NoUser \/ p.ranking = 0
                   THEN UNCHANGED <<players, discoveries, date_matched_ids>>
                   ELSE IF AlreadyDiscovered(p.handle, discoveries)
                   THEN /\ UNCHANGED discoveries
                        /\ IF karma # <<>>
                           THEN /\ players' = [players EXCEPT ![pc.i] =
                                      Matched(p, user_id, karma[1].rank,
                                              "previously_discovered", FALSE)]
                                /\ date_matched_ids' =
                                      [date_matched_ids EXCEPT
                                         ![p.game_date] = @ \cup {user_id}]
                           ELSE UNCHANGED <<players, date_matched_ids>>
                   ELSE IF result # <<>>
                   THEN /\ players' = [players EXCEPT ![pc.i] =
                              Matched(p, result[1].user_id, result[1].rank,
                                      "rank_discovery", result[1].uncertain)]
                        /\ discoveries' =
                              DictPut(discoveries, Lower(p.handle),
                                  Record(result[1].user_id,
                                         IF result[1].uncertain THEN "low"
                                         ELSE "medium",
                                         "rank"))
                        /\ date_matched_ids' =
                              [date_matched_ids EXCEPT
                                 ![p.game_date] = @ \cup {result[1].user_id}]
                   ELSE UNCHANGED <<players, discoveries, date_matched_ids>>
    /\ UNCHANGED <<appVars, linkVars, resVars, fnVars, prog, supabase, source, karma_cache,
                   requests, ranked_days_cache, traversals, fetch, found, api>>

(***************************************************************************)
(* PlayerDiscovery.run_all_strategies                                       *)
(***************************************************************************)
\* fetch_all_karma_data: one date of the loop (no loop without a client)
PdFetchKarma ==
    /\ prog = "pd" /\ pc.phase = "fetch"
    /\ IF ~supabase \/ pc.i > Len(GameDates)
       THEN /\ pc' = Enter("username")
            /\ UNCHANGED <<karma_cache, requests>>
       ELSE \E ok \in BOOLEAN :
               LET date_str == GameDates[pc.i]
               IN  /\ requests' = [requests EXCEPT ![date_str] = Inc(@)]
                   /\ karma_cache' =
                         IF ok
                         THEN [karma_cache EXCEPT ![date_str] =
                                  Cached(OrderByRank(source[date_str]))]
                         ELSE karma_cache
                   /\ pc' = NextEntry
    /\ UNCHANGED <<appVars, linkVars, resVars, fnVars, prog, supabase, source, players,
                   ranked_days_cache, traversals, fetch,
                   discoveries, date_matched_ids, found, api>>

\* strategy_username_match: one handle of  for handle, profile in profiles
PdUsernameMatch ==
    /\ prog = "pd" /\ pc.phase = "username"
    /\ pc.i <= Len(ProfileHandles(players))
    /\ LET handle == ProfileHandles(players)[pc.i]
           result == strategy_username_match(handle, IndexRows)
       IN  IF result = {} THEN UNCHANGED found
           ELSE \E r \in result :
                   found' = [found EXCEPT !.username = DictPut(@, handle, r)]
    /\ pc' = NextEntry
    /\ UNCHANGED <<appVars, linkVars, resVars, fnVars, prog, supabase, source, players,
                   karma_cache, requests, ranked_days_cache, traversals,
                   fetch, discoveries, date_matched_ids, api>>

\* self.discoveries.update(username_discoveries)
PdMergeUsername ==
    /\ prog = "pd" /\ pc.phase = "username"
    /\ pc.i > Len(ProfileHandles(players))
    /\ discoveries' =
          [h \in DOMAIN discoveries \cup DOMAIN found.username |->
              IF h \in DOMAIN found.username THEN found.username[h]
              ELSE discoveries[h]]
    /\ pc' = Enter("rank")
    /\ UNCHANGED <<appVars, linkVars, resVars, fnVars, prog, supabase, source, players,
                   karma_cache, requests, ranked_days_cache, traversals,
                   fetch, date_matched_ids, found, api>>

\* strategy_rank_pattern: one handle of  for handle, profile in profiles
PdRankPattern ==
    /\ prog = "pd" /\ pc.phase = "rank"
    /\ pc.i <= Len(ProfileHandles(players))
    /\ LET handle == ProfileHandles(players)[pc.i]
           result == strategy_rank_pattern(handle, players, karma_cache)
       IN  IF result = {} THEN UNCHANGED found
           ELSE \E r \in result :
                   found' = [found EXCEPT !.rank = DictPut(@, handle, r)]
    /\ pc' = NextEntry
    /\ UNCHANGED <<appVars, linkVars, resVars, fnVars, prog, supabase, source, players,
                   karma_cache, requests, ranked_days_cache, traversals,
                   fetch, discoveries, date_matched_ids, api>>

\* if handle not in self.discoveries
NotYetDiscoveredAlways(handle, disc) == TRUE
NotYetDiscovered(handle, disc) == handle \notin DOMAIN disc

\* for handle, result in new.items():
\*     if handle not in self.discoveries: self.discoveries[handle] = result
MergeNew(disc, new) ==
    [h \in DOMAIN disc \cup DOMAIN new |->
        IF h \in DOMAIN new /\ NotYetDiscovered(h, disc) THEN new[h]
        ELSE disc[h]]

PdMergeRank ==
    /\ prog = "pd" /\ pc.phase = "rank"
    /\ pc.i > Len(ProfileHandles(players))
    /\ discoveries' = MergeNew(discoveries, found.rank)
    /\ pc' = Enter("collect")
    /\ UNCHANGED <<appVars, linkVars, resVars, fnVars, prog, supabase, source, players,
                   karma_cache, requests, ranked_days_cache, traversals,
                   fetch, date_matched_ids, found, api>>

\* the handles run_all_strategies collects candidates for, in profile order
RemainingHandles ==
    SelectSeq(ProfileHandles(players),
              LAMBDA h : /\ h \notin DOMAIN discoveries
                         /\ h \notin existing_mappings
                         /\ RemainingCandidates(h, players, karma_cache) # {})

\* remaining_candidates[handle] = list(candidates), for every such handle
PdCollect ==
    /\ prog = "pd" /\ pc.phase = "collect"
    /\ LET hs == { RemainingHandles[k] : k \in 1..Len(RemainingHandles) }
           lists == UNION { Perms(RemainingCandidates(h, players, karma_cache)) :
                              h \in hs }
       IN  \E f \in [hs -> lists] :
              /\ \A h \in hs :
                    f[h] \in Perms(RemainingCandidates(h, players, karma_cache))
              /\ api' = [handles |-> RemainingHandles, candidates |-> f,
                         best |-> <<>>]
    /\ pc' = Enter("api")
    /\ UNCHANGED <<appVars, linkVars, resVars, fnVars, prog, supabase, source, players,
                   karma_cache, requests, ranked_days_cache, traversals,
                   fetch, discoveries, date_matched_ids, found>>

\* user_ids[:5]
ApiLimit == 5
FirstIds(user_ids) ==
    IF Len(user_ids) <= ApiLimit THEN user_ids ELSE SubSeq(user_ids, 1, ApiLimit)

\* user_ranks[date_str] of  {d["day"]: d["rank"] for d in ranked_days}
UserRank(ranked_days, date_str) ==
    LET hits == SelectSeq(ranked_days, LAMBDA e : e.day = date_str)
    IN  hits[Len(hits)].rank

\* score over the dates of expected_rankings that are in user_ranks
RECURSIVE Score(_, _, _)
Score(ranked_days, expected_rankings, dates) ==
    IF dates = {} THEN 0
    ELSE LET d == CHOOSE x \in dates : TRUE
         IN  Abs(UserRank(ranked_days, d) - expected_rankings[d])
             + Score(ranked_days, expected_rankings, dates \ {d})

\* score / matches < 30, and best_score < 10
ApiTolerance == 30
ApiHigh == 10

\* strategy_ranked_days_api: one user id of  for user_id in user_ids[:5]
PdApiCandidate ==
    /\ prog = "pd" /\ pc.phase = "api" /\ ~fetch.active
    /\ pc.i <= Len(api.handles)
    /\ pc.j <= Len(FirstIds(api.candidates[api.handles[pc.i]]))
    /\ LET handle == api.handles[pc.i]
           user_id == FirstIds(api.candidates[handle])[pc.j]
           ranked_days == ranked_days_cache[user_id]
           expected_rankings == Rankings(players, handle)
           dates == { d \in DOMAIN expected_rankings :
                        \E k \in 1..Len(ranked_days) : ranked_days[k].day = d }
           matches == Cardinality(dates)
           score == Score(ranked_days, expected_rankings, dates)
           better == /\ matches > 0
                     /\ score < ApiTolerance * matches
                     /\ \/ api.best = <<>>
                        \/ score * api.best[1].matches
                             < api.best[1].score * matches
       IN  IF user_id \notin DOMAIN ranked_days_cache
           THEN /\ fetch' = StartFetch(user_id)
                /\ traversals' = [traversals EXCEPT ![user_id] = Inc(@)]
                /\ UNCHANGED <<pc, api>>
           ELSE /\ pc' = [pc EXCEPT !.j = @ + 1]
                /\ api' = IF ranked_days # <<>> /\ better
                          THEN [api EXCEPT !.best =
                                   <<[user_id |-> user_id, score |-> score,
                                      matches |-> matches]>>]
                          ELSE api
                /\ UNCHANGED <<fetch, traversals>>
    /\ UNCHANGED <<appVars, linkVars, resVars, fnVars, prog, supabase, source, players,
                   karma_cache, requests, ranked_days_cache, discoveries, date_matched_ids, found>>

\* strategy_ranked_days_api: the end of a handle,  if best_match:
PdApiRecord ==
    /\ prog = "pd" /\ pc.phase = "api" /\ ~fetch.active
    /\ pc.i <= Len(api.handles)
    /\ pc.j > Len(FirstIds(api.candidates[api.handles[pc.i]]))
    /\ found' =
          IF api.best = <<>> THEN found
          ELSE [found EXCEPT !.api =
                   DictPut(@, api.handles[pc.i],
                       Record(api.best[1].user_id,
                              IF api.best[1].score < ApiHigh * api.best[1].matches
                              THEN "high" ELSE "medium",
                              "ranked_days_api"))]
    /\ api' = [api EXCEPT !.best = <<>>]
    /\ pc' = NextEntry
    /\ UNCHANGED <<appVars, linkVars, resVars, fnVars, prog, supabase, source, players,
                   karma_cache, requests, ranked_days_cache, traversals,
                   fetch, discoveries, date_matched_ids>>

PdMergeApi ==
    /\ prog = "pd" /\ pc.phase = "api"
    /\ pc.i > Len(api.handles)
    /\ discoveries' = MergeNew(discoveries, found.api)
    /\ pc' = Enter("done")
    /\ UNCHANGED <<appVars, linkVars, resVars, fnVars, prog, supabase, source, players,
                   karma_cache, requests, ranked_days_cache, traversals,
                   fetch, date_matched_ids, found, api>>

NextId ==
    \/ Prefetch \/ KmPhase1 \/ KmPhase2 \/ Verify
    \/ S6Phase1 \/ S6Phase2 \/ S6Phase3
    \/ PdFetchKarma \/ PdUsernameMatch \/ PdMergeUsername
    \/ PdRankPattern \/ PdMergeRank \/ PdCollect
    \/ PdApiCandidate \/ PdApiRecord \/ PdMergeApi
    \/ FetchPage

SpecId == InitId /\ [][NextId]_vars

\* runs on one roster whose handle no username resembles, so that the rank
\* strategies leave an uncertain match or candidates to check against the
\* history of an id
HistorySource ==
    [d \in Dates |-> << [user_id |-> "u1", username |-> Aba, rank |-> 100],
                        [user_id |-> "u2", username |-> Abab, rank |-> 130] >>]

HistoryRosters ==
    { << Entry(Dd, 1, 100, NoUser) >>,
      << Entry(Dd, 1, 100, NoUser), Entry(Dd, 2, 100, NoUser) >> }

InitHistory ==
    /\ LinkIdle /\ ResIdle /\ FnIdle /\ AppIdle
    /\ prog \in {"pd", "km", "s6"}
    /\ supabase = TRUE
    /\ source = HistorySource
    /\ players \in HistoryRosters
    /\ pc = Enter(IF prog = "pd" THEN "fetch" ELSE "prefetch")
    /\ karma_cache = [d \in Dates |-> NotCached]
    /\ requests = [d \in Dates |-> 0]
    /\ ranked_days_cache = <<>>
    /\ traversals = [id \in Ids |-> 0]
    /\ fetch = NoFetch
    /\ discoveries = <<>>
    /\ date_matched_ids = [d \in Dates |-> {}]
    /\ found = [username |-> <<>>, rank |-> <<>>, api |-> <<>>]
    /\ api = [handles |-> <<>>, candidates |-> <<>>, best |-> <<>>]

\* the page request of a running traversal is eventually answered, by a
\* response or by the timeout of requests.get
SpecHistory == InitHistory /\ [][NextId]_vars /\ WF_vars(FetchPage)

(***************************************************************************)
(* Properties of handle resolution                                          *)
(***************************************************************************)
\* low < medium < high
ConfidenceClass(c) ==
    CASE c = "high" -> 3 [] c = "medium" -> 2 [] c = "low" -> 1 [] OTHER -> 0

\* a step keeps every record, or replaces it by one of a strictly higher
\* confidence class, and keeps the id and the confidence of a "high" record
KeepsOrUpgrades ==
    \A h \in DOMAIN discoveries :
       /\ h \in DOMAIN discoveries'
       /\ discoveries'[h] # discoveries[h] =>
             ConfidenceClass(discoveries'[h].confidence)
                > ConfidenceClass(discoveries[h].confidence)
       /\ discoveries[h].confidence = "high" =>
             /\ discoveries'[h].user_id = discoveries[h].user_id
             /\ discoveries'[h].confidence = "high"

\* C2: in run_all_strategies a handle that holds a record keeps a record; the
\* record changes only to one of a strictly higher confidence class, and a
\* record of confidence "high" keeps its user id and its confidence.
C2_NeverDowngraded == [][prog = "pd" => KeepsOrUpgrades]_vars

\* the rank strategy has returned a different record for a handle that the
\* username strategy resolved at "high", and the merge has run
C2_Witness ==
    /\ prog = "pd" /\ pc.phase \in {"collect", "api", "done"}
    /\ \E h \in DOMAIN found.rank \cap DOMAIN found.username :
          /\ found.rank[h] # found.username[h]
          /\ discoveries[h].confidence = "high"
          /\ discoveries[h].method = "username_exact"

\* the handle has an id from outside the run: in the mapping file, or on a
\* roster entry as loaded
ExternallyKnown(h) ==
    \/ h \in existing_mappings
    \/ \E k \in 1..Len(players) :
          /\ Lower(players[k].handle) = h
          /\ players[k].player_id # NoUser
          /\ players[k].match \in {"none", "direct", "outside_top_1000"}

\* all roster entries of an unknown handle that hold an id hold the id of the
\* handle's discovered entry
OneIdPerHandle ==
    \A k1, k2 \in 1..Len(players) :
       ( /\ Lower(players[k1].handle) = Lower(players[k2].handle)
         /\ ~ExternallyKnown(Lower(players[k1].handle))
         /\ players[k1].player_id # NoUser
         /\ players[k2].player_id # NoUser )
       => /\ players[k1].player_id = players[k2].player_id
          /\ Lower(players[k1].handle) \in DOMAIN discoveries
          /\ discoveries[Lower(players[k1].handle)].user_id
               = players[k1].player_id

\* a step leaves the discovered entry of every unknown handle as it is
DiscoveryFixed ==
    \A h \in DOMAIN discoveries :
       ~ExternallyKnown(h) =>
          /\ h \in DOMAIN discoveries'
          /\ discoveries'[h] = discoveries[h]

\* C3: in KarmaMatcher and S6Reconstructor, for a handle with no externally
\* known id (handles compared in lower case), the discovered entry never
\* changes once written, and all roster entries of the handle that hold an
\* id hold the id of that entry.
C3_Idempotent ==
    /\ [](prog \in {"km", "s6"} => OneIdPerHandle)
    /\ [][(prog \in {"km", "s6"}) => DiscoveryFixed]_vars

\* two roster entries of one unknown handle, on different dates and in
\* different letter case, both hold an id: the second one by reuse
C3_Witness ==
    /\ prog \in {"km", "s6"}
    /\ \E k1, k2 \in 1..Len(players) :
          /\ k1 < k2
          /\ players[k1].handle # players[k2].handle
          /\ Lower(players[k1].handle) = Lower(players[k2].handle)
          /\ players[k1].game_date # players[k2].game_date
          /\ ~ExternallyKnown(Lower(players[k1].handle))
          /\ players[k1].match = "rank_discovery"
          /\ players[k2].match = "previously_discovered"

UsernameMethods == {"username_exact", "username_fuzzy", "username"}

\* id is the single id of some username of the index built from rows
SingleIdOfAUsername(id, rows) ==
    \E k \in 1..Len(IndexNames(rows)) :
       IndexIds(rows, IndexNames(rows)[k]) = {id}

\* C4: every id that username matching (PlayerDiscovery, S6Reconstructor)
\* gave to a handle is the single id of a username that maps to exactly one
\* id over the fetched dates.
C4_UnambiguousOnly ==
    prog \in {"pd", "s6"} =>
       /\ \A h \in DOMAIN discoveries :
             discoveries[h].method \in UsernameMethods =>
                SingleIdOfAUsername(discoveries[h].user_id, IndexRows)
       /\ prog = "pd" =>
             \A h \in DOMAIN found.username :
                SingleIdOfAUsername(found.username[h].user_id, IndexRows)
       /\ \A k \in 1..Len(players) :
             players[k].match = "username" =>
                SingleIdOfAUsername(players[k].player_id, IndexRows)

\* a handle was resolved by username matching although the username equal
\* to the handle maps to more than one id
C4_Witness ==
    /\ prog \in {"pd", "s6"}
    /\ \E h \in DOMAIN discoveries :
          /\ discoveries[h].method \in UsernameMethods
          /\ Cardinality(IndexIds(IndexRows, h)) > 1

\* C5: no date is queried more than once and no id's history is traversed
\* more than once in a run.
C5_FetchedAtMostOnce ==
    /\ \A d \in DOMAIN requests : requests[d] <= 1
    /\ \A id \in DOMAIN traversals : traversals[id] <= 1

\* C6: a history fetch that has started returns.
C6_HistoryFetchEnds == fetch.active ~> ~fetch.active

\* C7: a date whose query failed has no rows recorded, and a history
\* traversal that ended on a failed page request cached an empty list.
C7_FailedFetchIsEmpty ==
    prog \in {"km", "pd"} =>
       /\ \A d \in DOMAIN karma_cache :
             (requests[d] > 0 /\ ~karma_cache[d].present) =>
                karma_cache[d].rows = <<>>
       /\ (~fetch.active /\ fetch.failed) =>
             ranked_days_cache[fetch.user_id] = <<>>

\* the ids ranked within 30 of the expected rank on a date
DateCandidates(date_str, expected_rank) ==
    Candidates(source[date_str], expected_rank, PatternTolerance)

\* C10: a handle with expected ranks on two dates whose candidate sets have
\* no id in common gets no record from strategy_rank_pattern.
C10_DisjointUnresolved ==
    prog = "pd" =>
       \A k \in 1..Len(ProfileHandles(players)) :
          LET h == ProfileHandles(players)[k]
              rankings == Rankings(players, h)
          IN  ( /\ DOMAIN rankings = {1, 2}
                /\ DateCandidates(1, rankings[1])
                     \cap DateCandidates(2, rankings[2]) = {} )
              => h \notin DOMAIN found.rank

(***************************************************************************)
(* clean_team_name (scripts/parse_rkl_games.py; app.py has the same steps) *)
(***************************************************************************)
\* \d
IsDigit(c) == c \in {"0", "1", "2", "3", "4", "5", "6", "7", "8", "9"}

\* \s
IsSpace(c) == c \in {" ", "\t", "\n"}

\* s[n:]
Drop(s, n) == SubSeq(s, n + 1, Len(s))

\* s starts with the character c
At(s, c) == s # <<>> /\ Head(s) = c

\* the length of the greedy run \d* at the start of s
RECURSIVE Digits(_)
Digits(s) == IF s # <<>> /\ IsDigit(Head(s)) THEN 1 + Digits(Tail(s)) ELSE 0

\* the length of the greedy run \s* at the start of s
RECURSIVE Spaces(_)
Spaces(s) == IF s # <<>> /\ IsSpace(Head(s)) THEN 1 + Spaces(Tail(s)) ELSE 0

\* the length of the greedy run [\d,]* at the start of s
RECURSIVE ScoreChars(_)
ScoreChars(s) ==
    IF s # <<>> /\ (IsDigit(Head(s)) \/ Head(s) = ",")
    THEN 1 + ScoreChars(Tail(s)) ELSE 0

\* s after the run \s* at its start
SkipSpaces(s) == Drop(s, Spaces(s))

\* re.sub(r"^\s*(?:\(\d+\)\s*|\d+\.\s*|\d+\s+)", "", name): one leading seed
\* or rank token is removed
strip_seed(name) ==
    LET t == SkipSpaces(name)
        d == Digits(t)
        p == IF At(t, "(") THEN Digits(Tail(t)) ELSE 0
    IN  IF p > 0 /\ At(Drop(t, p + 1), ")") THEN SkipSpaces(Drop(t, p + 2))
        ELSE IF d > 0 /\ At(Drop(t, d), ".") THEN SkipSpaces(Drop(t, d + 1))
        ELSE IF d > 0 /\ Spaces(Drop(t, d)) > 0 THEN SkipSpaces(Drop(t, d))
        ELSE name

\* u is matched as a whole by \s*\(\d+-\d+(?:-\d+)?\)\s*$
IsRecordTail(u) ==
    LET a == SkipSpaces(u)
        b == IF At(a, "(") THEN Tail(a) ELSE <<>>
        d1 == Digits(b)
        c == Drop(b, d1)
        e == IF At(c, "-") THEN Tail(c) ELSE <<>>
        d2 == Digits(e)
        f == Drop(e, d2)
        g == IF At(f, "-") THEN Tail(f) ELSE <<>>
        d3 == Digits(g)
        rest == IF At(f, ")") THEN Tail(f) ELSE Drop(g, d3 + 1)
    IN  /\ At(a, "(") /\ d1 > 0
        /\ At(c, "-") /\ d2 > 0
        /\ At(f, ")") \/ (At(f, "-") /\ d3 > 0 /\ At(Drop(g, d3), ")"))
        /\ SkipSpaces(rest) = <<>>

\* the least member of a non-empty set of positions
FirstPos(S) == CHOOSE i \in S : \A j \in S : i <= j

\* re.sub(r"\s*\(\d+-\d+(?:-\d+)?\)\s*$", "", name): the leftmost match is
\* the one replaced, and it reaches the end of the name
strip_record(name) ==
    LET starts == {i \in 1..Len(name) :
                       IsRecordTail(SubSeq(name, i, Len(name)))}
    IN  IF starts = {} THEN name
        ELSE SubSeq(name, 1, FirstPos(starts) - 1)

\* the dash class of the score pattern, as the file spells it
DashChars == {"-"}

\* u is matched as a whole by \s*[-..]\s*[\d,]+\s*[..]?\s*$ ; the optional
\* class of marks holds no character of the names drawn here
IsScoreTail(u) ==
    LET a == SkipSpaces(u)
        b == IF a # <<>> THEN SkipSpaces(Tail(a)) ELSE <<>>
        n == ScoreChars(b)
    IN  /\ a # <<>> /\ Head(a) \in DashChars
        /\ n > 0
        /\ SkipSpaces(Drop(b, n)) = <<>>

\* re.sub(r"\s*[-..]\s*[\d,]+\s*[..]?\s*$", "", name)
strip_score(name) ==
    LET starts == {i \in 1..Len(name) :
                       IsScoreTail(SubSeq(name, i, Len(name)))}
    IN  IF starts = {} THEN name
        ELSE SubSeq(name, 1, FirstPos(starts) - 1)

\* re.sub(r"^\d+\.\s*", "", name)
strip_rank(name) ==
    LET d == Digits(name)
    IN  IF d > 0 /\ At(Drop(name, d), ".") THEN SkipSpaces(Drop(name, d + 1))
        ELSE name

\* the characters name.strip(" \t\n-..:..~") removes at both ends
EdgeChars == {" ", "\t", "\n", "-", ":", "~"}

RECURSIVE LStripChars(_)
LStripChars(s) ==
    IF s # <<>> /\ Head(s) \in EdgeChars THEN LStripChars(Tail(s)) ELSE s

RECURSIVE RStripChars(_)
RStripChars(s) ==
    IF s # <<>> /\ s[Len(s)] \in EdgeChars
    THEN RStripChars(SubSeq(s, 1, Len(s) - 1)) ELSE s

StripChars(s) == RStripChars(LStripChars(s))

\* name[:80]
NameLimit == 80

Truncate(s) == IF Len(s) > NameLimit THEN SubSeq(s, 1, NameLimit) ELSE s

clean_team_name(name) ==
    IF name = <<>> THEN <<>>
    ELSE Truncate(StripChars(strip_rank(strip_score(strip_record(
             strip_seed(Strip(name)))))))

\* the characters team names are drawn from
NameChars == {"1", " ", "T", "(", ")", "-", ".", ","}

MaxName == 5

\* a name longer than the limit, with a space at the limit
LongName == [i \in 1..(NameLimit + 1) |-> IF i = NameLimit THEN " " ELSE "T"]

NamePool ==
    UNION {[1..n -> NameChars] : n \in 0..MaxName} \cup {LongName}

InitClean ==
    /\ arg \in NamePool
    /\ ret = [status |-> "idle"]
    /\ LinkIdle /\ ResIdle /\ IdIdle /\ AppIdle

\* name = clean_team_name(name)
CleanTeamName ==
    /\ ret.status = "idle"
    /\ ret' = [status |-> "cleaned", value |-> clean_team_name(arg)]
    /\ UNCHANGED <<appVars, arg, linkVars, resVars, idVars>>

\* the cleaned name is cleaned again
CleanAgain ==
    /\ ret.status = "cleaned"
    /\ ret' = [status |-> "recleaned", first |-> ret.value,
               value |-> clean_team_name(ret.value)]
    /\ UNCHANGED <<appVars, arg, linkVars, resVars, idVars>>

NextClean == CleanTeamName \/ CleanAgain

SpecClean == InitClean /\ [][NextClean]_vars

\* C11: cleaning an already cleaned team name changes nothing, for every
\* input: clean_team_name(clean_team_name(s)) = clean_team_name(s)
C11_Idempotent == ret.status = "recleaned" => ret.value = ret.first

(***************************************************************************)
(* Classification and extraction of posts (scripts/parse_rkl_games.py).    *)
(* A post is a sequence of lines; a line is recorded by what each pattern   *)
(* of the script finds in it: blank (nothing but whitespace), at (starts    *)
(* with "@"), sep (SEPARATOR_RE), vs_alone (a line that is a vs divider),   *)
(* vs_any (VS_ANY_RE), record (TEAM_RECORD_RE matches), records (matches of *)
(* RECORD_PATTERN_RE), result_line (RESULT_LINE_RE), lb_line                *)
(* (LEADERBOARD_LINE_RE), raw (the team text the record patterns capture,   *)
(* else the stripped line), len (of the stripped line), left / right (the   *)
(* mentions before and after the first vs token, all of them in left when   *)
(* there is none), kind / team / score_str / trailing / round / adjhdr (as  *)
(* in the result lines above), top (TOP_SCORES_RE or MEDIAN_RE), winloss    *)
(* (WINLOSS_MARK_RE), scores (SCORE_NUM_RE), large (the large score         *)
(* pattern), gotd, lineups_word, exhibition (is_exhibition).                *)
(***************************************************************************)
\* a line in which no pattern finds anything
PlainLine ==
    [blank |-> TRUE,
     at |-> FALSE,
     sep |-> FALSE,
     vs_alone |-> FALSE,
     vs_any |-> FALSE,
     record |-> FALSE,
     records |-> 0,
     result_line |-> FALSE,
     lb_line |-> FALSE,
     raw |-> <<>>,
     len |-> 0,
     left |-> <<>>,
     right |-> <<>>,
     kind |-> "other",
     team |-> <<>>,
     score_str |-> <<>>,
     trailing |-> {},
     round |-> FALSE,
     adjhdr |-> FALSE,
     top |-> FALSE,
     winloss |-> FALSE,
     scores |-> FALSE,
     large |-> FALSE,
     gotd |-> FALSE,
     lineups_word |-> FALSE,
     exhibition |-> FALSE]

\* the lines posts are made of, each with what the patterns of the script
\* find in it
PostLines ==
    {
      \* "Ab (3-1)"
      [PlainLine EXCEPT !.blank = FALSE, !.record = TRUE, !.records = 1,
         !.raw = <<"A", "b">>, !.len = 8, !.scores = TRUE],
      \* "@al @bo"
      [PlainLine EXCEPT !.blank = FALSE, !.at = TRUE,
         !.raw = <<"@", "a", "l", " ", "@", "b", "o">>, !.len = 7,
         !.left = <<<<"a", "l">>, <<"b", "o">>>>],
      \* "vs"
      [PlainLine EXCEPT !.blank = FALSE, !.vs_alone = TRUE, !.vs_any = TRUE,
         !.raw = <<"v", "s">>, !.len = 2],
      \* "---"
      [PlainLine EXCEPT !.blank = FALSE, !.sep = TRUE,
         !.raw = <<"-", "-", "-">>, !.len = 3, !.kind = "separator"],
      \* "Lineups"
      [PlainLine EXCEPT !.blank = FALSE,
         !.raw = <<"L", "i", "n", "e", "u", "p", "s">>, !.len = 7,
         !.lineups_word = TRUE],
      \* "@al vs @bo"
      [PlainLine EXCEPT !.blank = FALSE, !.at = TRUE, !.vs_any = TRUE,
         !.raw = <<"@", "a", "l", " ", "v", "s", " ", "@", "b", "o">>,
         !.len = 10, !.left = <<<<"a", "l">>>>, !.right = <<<<"b", "o">>>>],
      \* "- (1-1)"
      [PlainLine EXCEPT !.blank = FALSE, !.record = TRUE, !.records = 1,
         !.raw = <<"-">>, !.len = 7, !.scores = TRUE],
      \* "Ab (3-1) - 38,000 :check_mark_button"
      [PlainLine EXCEPT !.blank = FALSE, !.record = TRUE, !.records = 1,
         !.raw = <<"A", "b">>, !.len = 36, !.kind = "result",
         !.team = <<"A", "b">>,
         !.score_str = <<"3", "8", ",", "0", "0", "0">>,
         !.trailing = {"win"}, !.winloss = TRUE, !.scores = TRUE,
         !.large = TRUE],
      \* "Cc (1-3) - 35,000"
      [PlainLine EXCEPT !.blank = FALSE, !.record = TRUE, !.records = 1,
         !.raw = <<"C", "c">>, !.len = 17, !.kind = "result",
         !.team = <<"C", "c">>,
         !.score_str = <<"3", "5", ",", "0", "0", "0">>, !.scores = TRUE,
         !.large = TRUE],
      \* "median"
      [PlainLine EXCEPT !.blank = FALSE,
         !.raw = <<"m", "e", "d", "i", "a", "n">>, !.len = 6, !.top = TRUE],
      \* "GOTD"
      [PlainLine EXCEPT !.blank = FALSE, !.raw = <<"G", "O", "T", "D">>,
         !.len = 4, !.gotd = TRUE],
      \* "exhibition"
      [PlainLine EXCEPT !.blank = FALSE,
         !.raw = <<"e", "x", "h", "i", "b", "i", "t", "i", "o", "n">>,
         !.len = 10, !.exhibition = TRUE],
      \* "Finals"
      [PlainLine EXCEPT !.blank = FALSE,
         !.raw = <<"F", "i", "n", "a", "l", "s">>, !.len = 6,
         !.round = TRUE],
      \* "1. Ab (3-1) - 38,000"
      [PlainLine EXCEPT !.blank = FALSE, !.record = TRUE, !.records = 1,
         !.lb_line = TRUE, !.raw = <<"1", ".", " ", "A", "b">>, !.len = 20,
         !.kind = "result", !.team = <<"A", "b">>,
         !.score_str = <<"3", "8", ",", "0", "0", "0">>, !.scores = TRUE,
         !.large = TRUE]
    }

\* the text of the thread root a comment is read with
ThreadTexts ==
    { <<>>,
      <<[PlainLine EXCEPT !.blank = FALSE, !.record = TRUE, !.records = 1,
         !.raw = <<"C", "c">>, !.len = 8, !.scores = TRUE]>> }

MaxPosts == 2

Posts == [thread : ThreadTexts, text : SeqsUpTo(PostLines, MaxLines)]

\* MENTION_RE.findall over some lines
RECURSIVE Mentions(_)
Mentions(lns) ==
    IF lns = <<>> THEN <<>>
    ELSE Head(lns).left \o Head(lns).right \o Mentions(Tail(lns))

\* len(RECORD_PATTERN_RE.findall(text))
RECURSIVE RecordCount(_)
RecordCount(lns) ==
    IF lns = <<>> THEN 0 ELSE Head(lns).records + RecordCount(Tail(lns))

is_exhibition(lns) == \E i \in DOMAIN lns : lns[i].exhibition

detect_content_type(lns) ==
    LET has_winloss == \E i \in DOMAIN lns : lns[i].winloss
        has_scores == \E i \in DOMAIN lns : lns[i].scores
        has_records == \E i \in DOMAIN lns : lns[i].records > 0
        has_separator == \E i \in DOMAIN lns : lns[i].sep
        record_count == RecordCount(lns)
        mention_count == Len(Mentions(lns))
        has_vs == \E i \in DOMAIN lns : lns[i].vs_any
        has_gotd == \E i \in DOMAIN lns : lns[i].gotd
        has_lineups_word == \E i \in DOMAIN lns : lns[i].lineups_word
        large_scores == \E i \in DOMAIN lns : lns[i].large
        has_round == \E i \in DOMAIN lns : lns[i].round
    IN  IF lns = <<>> THEN "other"
        ELSE IF \E i \in DOMAIN lns : lns[i].top THEN "leaderboard"
        ELSE IF has_winloss /\ has_scores THEN "result"
        ELSE IF record_count >= 2 /\ has_scores /\ large_scores THEN "result"
        ELSE IF has_records /\ has_separator /\ has_scores THEN "result"
        ELSE IF has_gotd /\ mention_count >= 4 THEN "lineup"
        ELSE IF has_vs /\ mention_count >= 2 THEN "lineup"
        ELSE IF has_lineups_word /\ mention_count >= 2 THEN "lineup"
        ELSE IF has_records /\ mention_count >= 4 /\ has_separator THEN "lineup"
        ELSE IF has_round /\ mention_count >= 2 /\ (has_vs \/ has_separator)
        THEN "lineup"
        ELSE IF mention_count >= 6 /\ has_separator THEN "lineup"
        ELSE "other"

\* clean_team_name of what a line's pattern captured
NameOf(ln) == clean_team_name(ln.raw)

\* the divider of guess_teams and extract_mentions_by_team: the first vs
\* line; 0 when there is none
VsLine(lns) ==
    LET vs == {i \in DOMAIN lns : lns[i].vs_alone}
    IN  IF vs = {} THEN 0 ELSE FirstPos(vs)

\* separator_indices[len(separator_indices) // 2]
MiddleSeparator(lns) ==
    LET separator_indices == SortedSeq({i \in DOMAIN lns : lns[i].sep})
    IN  IF Len(separator_indices) >= 2
        THEN separator_indices[(Len(separator_indices) \div 2) + 1]
        ELSE 0

\* how far guess_teams looks from the divider
SearchSpan == 15

\* a line the divider search of guess_teams takes a name from
IsNameLine(ln) == ~ln.blank /\ ~ln.at /\ ~ln.sep /\ (ln.record \/ ln.len < 50)

\* the search of guess_teams, names[i] being the cleaned name of line i;
\* None and "" are both false and both become "" in the record: <<>>
GuessedTeams(lns, names) ==
    LET result_teams ==
            SortedSeq({i \in DOMAIN lns : lns[i].result_line /\ names[i] # <<>>})
        team_record_teams ==
            SortedSeq({i \in DOMAIN lns :
                          /\ ~(lns[i].at \/ lns[i].sep \/ lns[i].len > 50)
                          /\ lns[i].record /\ Len(names[i]) > 1})
        lb_teams ==
            SortedSeq({i \in DOMAIN lns : lns[i].lb_line /\ names[i] # <<>>})
        divider_idx == IF VsLine(lns) # 0 THEN VsLine(lns)
                       ELSE MiddleSeparator(lns)
        before == {i \in DOMAIN lns : /\ i < divider_idx
                                      /\ i >= divider_idx - SearchSpan
                                      /\ IsNameLine(lns[i])}
        after == {i \in DOMAIN lns : /\ i > divider_idx
                                     /\ i < divider_idx + SearchSpan
                                     /\ IsNameLine(lns[i])}
        team_a == IF before = {} THEN <<>> ELSE names[SetMax(before)]
        team_b == IF after = {} THEN <<>> ELSE names[FirstPos(after)]
    IN  IF Len(result_teams) >= 2
        THEN <<names[result_teams[1]], names[result_teams[2]]>>
        ELSE IF Len(team_record_teams) >= 2
        THEN <<names[team_record_teams[1]], names[team_record_teams[2]]>>
        ELSE IF Len(lb_teams) >= 2
        THEN <<names[lb_teams[1]], names[lb_teams[2]]>>
        ELSE IF divider_idx # 0 /\ (team_a # <<>> \/ team_b # <<>>)
        THEN <<team_a, team_b>>
        ELSE << <<>>, <<>> >>

guess_teams(lns) == GuessedTeams(lns, [i \in DOMAIN lns |-> NameOf(lns[i])])

\* the first line with a vs token that has a mention on one of its sides
InlineVs(lns) ==
    {i \in DOMAIN lns : lns[i].vs_any /\ (lns[i].left # <<>> \/ lns[i].right # <<>>)}

extract_mentions_by_team(lns) ==
    LET n == Len(lns)
        vs_line_idx == VsLine(lns)
        a1 == Mentions(SubSeq(lns, 1, vs_line_idx - 1))
        b1 == Mentions(SubSeq(lns, vs_line_idx + 1, n))
        mid_idx == MiddleSeparator(lns)
        a2 == Mentions(SubSeq(lns, 1, mid_idx - 1))
        b2 == Mentions(SubSeq(lns, mid_idx + 1, n))
        team_header_indices ==
            SortedSeq({i \in DOMAIN lns : ~lns[i].at /\ lns[i].record})
        first_team_idx == team_header_indices[1]
        second_team_idx == team_header_indices[2]
        a3 == Mentions(SubSeq(lns, first_team_idx, second_team_idx - 1))
        b3 == Mentions(SubSeq(lns, second_team_idx, n))
    IN  IF vs_line_idx # 0 /\ (a1 # <<>> \/ b1 # <<>>) THEN <<a1, b1>>
        ELSE IF mid_idx # 0 /\ a2 # <<>> /\ b2 # <<>> THEN <<a2, b2>>
        ELSE IF Len(team_header_indices) >= 2 /\ (a3 # <<>> \/ b3 # <<>>)
        THEN <<a3, b3>>
        ELSE IF InlineVs(lns) # {}
        THEN <<lns[FirstPos(InlineVs(lns))].left,
               lns[FirstPos(InlineVs(lns))].right>>
        ELSE << <<>>, <<>> >>

\* combined = (thread_text or "") + "\n" + text
Combined(post) ==
    (IF post.thread = <<>> THEN <<PlainLine>> ELSE post.thread) \o post.text

\* a lineup is accepted without a team name
HasTeamAlways(teams) == TRUE

\* if not team_a and not team_b: return None
HasTeam(teams) == teams[1] # <<>> \/ teams[2] # <<>>

\* if not players_a and not players_b: return None
HasPlayers(sides) == sides[1] # <<>> \/ sides[2] # <<>>

NoRecord == [status |-> "None"]

\* extract_lineup once the teams and the two sides of mentions are known
LineupOf(post, teams, sides) ==
    IF post.text = <<>> THEN NoRecord
    ELSE IF is_exhibition(Combined(post)) THEN NoRecord
    ELSE IF detect_content_type(post.text) # "lineup" THEN NoRecord
    ELSE IF ~HasTeam(teams) THEN NoRecord
    ELSE IF ~HasPlayers(sides) THEN NoRecord
    ELSE [status |-> "lineup", team_a |-> teams[1], team_b |-> teams[2],
          players_a |-> sides[1], players_b |-> sides[2]]

extract_lineup(post) ==
    LineupOf(post, guess_teams(Combined(post)),
             extract_mentions_by_team(post.text))

extract_result(post) ==
    IF post.text = <<>> THEN NoRecord
    ELSE IF is_exhibition(Combined(post)) THEN NoRecord
    ELSE IF detect_content_type(post.text) # "result" THEN NoRecord
    ELSE extract_game_result_data(post.text)

\* a thread whose root is an exhibition and an exhibition comment are skipped
Skipped(post) == is_exhibition(post.thread) \/ is_exhibition(post.text)

\* what one comment gave: its lineup, or else its result, or nothing
Tried(post, lineup, result) ==
    [content_type |-> detect_content_type(post.text),
     lineup |-> lineup, result |-> result,
     emitted |-> IF lineup # NoRecord THEN "lineup"
                 ELSE IF result # NoRecord THEN "result" ELSE "none"]

\* a result is tried only when the comment gave no lineup
AfterLineup(post, lineup) ==
    Tried(post, lineup,
          IF Skipped(post) \/ lineup # NoRecord THEN NoRecord
          ELSE extract_result(post))

\* one comment of process_comments: a lineup is tried before a result
ProcessedComment(post) ==
    AfterLineup(post, IF Skipped(post) THEN NoRecord ELSE extract_lineup(post))

InitPosts ==
    /\ arg = <<>>
    /\ ret = [status |-> "idle", n |-> 0, before |-> <<"start", "start">>]
    /\ LinkIdle /\ ResIdle /\ IdIdle /\ AppIdle

\* for c in thread_comments: the loop takes the next comment
TakeComment ==
    /\ ret.status = "idle"
    /\ ret.n < MaxPosts
    /\ arg' \in Posts
    /\ ret' = [ret EXCEPT !.status = "taken"]
    /\ UNCHANGED <<appVars, linkVars, resVars, idVars>>

\* the body of the loop: the extractions tried on the comment
ProcessComment ==
    /\ ret.status = "taken"
    /\ ret' = [status |-> "processed", n |-> ret.n + 1, before |-> ret.before,
               out |-> ProcessedComment(arg)]
    /\ UNCHANGED <<appVars, arg, linkVars, resVars, idVars>>

\* continue: back to the head of the loop
Continue ==
    /\ ret.status = "processed"
    /\ arg' = <<>>
    /\ ret' = [status |-> "idle", n |-> ret.n,
               before |-> <<ret.out.content_type, ret.out.emitted>>]
    /\ UNCHANGED <<appVars, linkVars, resVars, idVars>>

NextPosts == TakeComment \/ ProcessComment \/ Continue

SpecPosts == InitPosts /\ [][NextPosts]_vars

\* the positions of the lines of a text that parse_result_line parses: the
\* result lines that are no adjustment header, but for one taken as the
\* round name before any line was parsed
ParsedPositions(lns) ==
    LET parseable == {i \in DOMAIN lns : lns[i].kind = "result" /\ ~lns[i].adjhdr}
        rounds == {i \in DOMAIN lns : lns[i].round}
        taken == IF rounds # {} /\ ~(\E i \in parseable : i < FirstPos(rounds))
                 THEN {FirstPos(rounds)} ELSE {}
    IN  parseable \ taken

\* an emitted lineup names a team and has a player on one side at least
LineupHasEvidence(l) ==
    /\ l.team_a # <<>> \/ l.team_b # <<>>
    /\ l.players_a # <<>> \/ l.players_b # <<>>

\* an emitted result has the teams of the first two parsed lines of the post
ResultHasEvidence(r, lns) ==
    LET parsed == SortedSeq(ParsedPositions(lns))
    IN  /\ Len(parsed) >= 2
        /\ r.team_a = lns[parsed[1]].team
        /\ r.team_b = lns[parsed[2]].team

\* C12: every emitted record carries its minimum evidence: a Result comes
\* from at least two parsed team-record lines, the first two being team A
\* and team B; a Lineup has a non-empty team name and a non-empty roster
\* side; a post without that evidence yields no record.
C12_MinimumEvidence ==
    ret.status = "processed" =>
        /\ ret.out.emitted = "lineup" => LineupHasEvidence(ret.out.lineup)
        /\ ret.out.emitted = "result" => ResultHasEvidence(ret.out.result, arg.text)
        /\ ret.out.emitted = "none" =>
               ret.out.lineup = NoRecord /\ ret.out.result = NoRecord

\* a post classified lineup or result yielded no record for want of
\* evidence, and the comment after it was processed and gave a record
C12_Witness ==
    /\ ret.status = "processed" /\ ret.n = 2
    /\ ret.before \in {<<"lineup", "none">>, <<"result", "none">>}
    /\ ret.out.emitted \in {"lineup", "result"}

\* the two stated rules for a result: a win / loss glyph together with a
\* numeric token, or two record patterns together with a large number
StatedResultRule(lns) ==
    \/ /\ \E i \in DOMAIN lns : lns[i].winloss
       /\ \E i \in DOMAIN lns : lns[i].scores
    \/ /\ RecordCount(lns) >= 2
       /\ \E i \in DOMAIN lns : lns[i].large

\* C13: classification gives the first of leaderboard, result, lineup whose
\* rule holds and other when none does; a post is labelled result only when
\* win / loss glyphs occur with numeric tokens or at least two (W-L) record
\* patterns occur with large numeric tokens.
C13_ResultOnlyByRule ==
    ret.status = "processed" /\ ret.out.content_type = "result"
        => StatedResultRule(arg.text)

(***************************************************************************)
(* run_parser: single-team results are paired into results, results are    *)
(* linked to lineups, and missing scores are filled from the leaderboards  *)
(***************************************************************************)
\* r1_team_lower == t or r1_team_lower in t or t in r1_team_lower
TeamHit(team_lower, t) ==
    team_lower = t \/ IsSubstr(team_lower, t) \/ IsSubstr(t, team_lower)

\* lu.team_a.lower() if lu.team_a else ""
LowerOrEmpty(team) == IF team # <<>> THEN Lower(team) ELSE <<>>

\* opponent_team of r1 in a lineup; <<>> stands for None and for ""
OpponentTeam(r1, lu) ==
    IF TeamHit(Lower(r1.team), LowerOrEmpty(lu.team_a))
    THEN LowerOrEmpty(lu.team_b)
    ELSE IF TeamHit(Lower(r1.team), LowerOrEmpty(lu.team_b))
    THEN LowerOrEmpty(lu.team_a)
    ELSE <<>>

\* the results of the date that the inner loop accepts as r2
Opponents(r1, lu, rs, used) ==
    SelectSeq(rs, LAMBDA r2 :
        /\ r2.comment_id \notin used /\ r2.comment_id # r1.comment_id
        /\ TeamHit(Lower(r2.team), OpponentTeam(r1, lu)))

\* the lineups of the date in which r1 has a team and an opponent's result
PairingLineups(r1, rs, used, lus) ==
    SelectSeq(lus, LAMBDA lu :
        /\ lu.game_date = r1.game_date
        /\ OpponentTeam(r1, lu) # <<>>
        /\ Opponents(r1, lu, rs, used) # <<>>)

\* winner of a result made of two single-team results
SingleWinner(team_a_result, team_b_result) ==
    IF team_a_result.is_winner = "True" THEN "A"
    ELSE IF team_b_result.is_winner = "True" THEN "B"
    ELSE IF team_a_result.score > team_b_result.score THEN "A"
    ELSE IF team_b_result.score > team_a_result.score THEN "B"
    ELSE "None"

\* the GameResult made of r1 and r2 under a lineup; paired and by keep what
\* it was made of (the script keeps the two teams and scores in raw_text)
PairedResult(r1, r2, lu) ==
    LET r1_is_a == TeamHit(Lower(r1.team), LowerOrEmpty(lu.team_a))
        team_a_result == IF r1_is_a THEN r1 ELSE r2
        team_b_result == IF r1_is_a THEN r2 ELSE r1
    IN  [comment_id |-> team_a_result.comment_id,
         game_date |-> r1.game_date,
         team_a |-> lu.team_a, team_b |-> lu.team_b,
         score_a |-> SomeScore(team_a_result.score),
         score_b |-> SomeScore(team_b_result.score),
         winner |-> SingleWinner(team_a_result, team_b_result),
         adjustment_a |-> NoneScore, adjustment_b |-> NoneScore,
         seed_a |-> "None", seed_b |-> "None",
         paired |-> <<team_a_result, team_b_result>>, by |-> lu]

\* the loop over the results of one date, from position i on
RECURSIVE PairFrom(_, _, _, _)
PairFrom(rs, i, used, lus) ==
    IF i > Len(rs) THEN <<>>
    ELSE LET r1 == rs[i]
             hits == IF r1.comment_id \in used THEN <<>>
                     ELSE PairingLineups(r1, rs, used, lus)
         IN  IF hits = <<>> THEN PairFrom(rs, i + 1, used, lus)
             ELSE LET lu == hits[1]
                      r2 == Opponents(r1, lu, rs, used)[1]
                  IN  <<PairedResult(r1, r2, lu)>> \o
                      PairFrom(rs, i + 1,
                               used \cup {r1.comment_id, r2.comment_id}, lus)

\* the dates of by_date, in the order of their first single-team result
RECURSIVE DatesInOrder(_, _)
DatesInOrder(srs, seen) ==
    IF srs = <<>> THEN <<>>
    ELSE IF ~HasDate(Head(srs).game_date) \/ Head(srs).game_date \in seen
    THEN DatesInOrder(Tail(srs), seen)
    ELSE <<Head(srs).game_date>> \o
         DatesInOrder(Tail(srs), seen \cup {Head(srs).game_date})

RECURSIVE PairDates(_, _, _)
PairDates(dates, srs, lus) ==
    IF dates = <<>> THEN <<>>
    ELSE PairFrom(SelectSeq(srs, LAMBDA sr : sr.game_date = Head(dates)),
                  1, {}, lus)
         \o PairDates(Tail(dates), srs, lus)

match_single_team_results(single_results, lus) ==
    PairDates(DatesInOrder(single_results, {}), single_results, lus)

\* ids of the comments that are single-team results
SingleIds == {11, 12}

\* the scores of the first single-team result: below, equal to and above
\* the score of the second
SingleScores == {35000, 38000, 41000}

\* the single-team results a run starts with
SinglesOfRun ==
    { <<>> } \cup
    { << [comment_id |-> 11, game_date |-> IsoDate(10), team |-> ta,
          score |-> sa, is_winner |-> wa],
         [comment_id |-> 12, game_date |-> IsoDate(10), team |-> Cc,
          score |-> 38000, is_winner |-> "None"] >> :
        ta \in {Ab, <<"z">>}, sa \in SingleScores, wa \in {"True", "False", "None"} }

\* the leaderboard scores a run starts with: none, or those of one day
LeaderboardsOfRun ==
    { <<>>,
      IsoDate(10) :> (Ab :> [score |-> 38000, winner |-> "True"]
                      @@ Cc :> [score |-> 35000, winner |-> "None"]) }

\* the offsets of the fill: range(0, 3)
FillOffsets == <<0, 1, 2>>

\* leaderboard_scores.get(check_date, {}) with
\* check_date = (d + timedelta(days=date_offset)).isoformat(), the isoformat
\* of a datetime
DateScores(lb, game_date, date_offset) ==
    LET check_date == IsoDateTime(FromIso(game_date) + date_offset)
    IN  IF check_date \in DOMAIN lb THEN lb[check_date] ELSE <<>>

\* the offsets at which both teams of a game have a score
FillHits(game, lb) ==
    SelectSeq(FillOffsets, LAMBDA o :
        LET date_scores == DateScores(lb, game.game_date, o)
        IN  /\ LowerOrEmpty(game.team_a) \in DOMAIN date_scores
            /\ LowerOrEmpty(game.team_b) \in DOMAIN date_scores)

\* the fill of one game
FilledGame(game, lb) ==
    IF ~(game.score_a.none /\ HasDate(game.game_date)) \/ FillHits(game, lb) = <<>>
    THEN game
    ELSE LET date_scores == DateScores(lb, game.game_date, FillHits(game, lb)[1])
             score_a_info == date_scores[LowerOrEmpty(game.team_a)]
             score_b_info == date_scores[LowerOrEmpty(game.team_b)]
         IN  [game EXCEPT
                !.score_a = SomeScore(score_a_info.score),
                !.score_b = SomeScore(score_b_info.score),
                !.winner = IF score_a_info.winner = "True" THEN "A"
                           ELSE IF score_b_info.winner = "True" THEN "B"
                           ELSE IF score_a_info.score > score_b_info.score THEN "A"
                           ELSE IF score_b_info.score > score_a_info.score THEN "B"
                           ELSE game.winner]

\* the number of extracted results a run starts with
MaxRunResults == 1

InitRun ==
    /\ ResIdle /\ IdIdle /\ FnIdle /\ AppIdle
    /\ lineups \in { WithIds(s) : s \in SeqsUpTo(LineupPool, MaxLineups) }
    /\ results \in { WithIds(s) : s \in SeqsUpTo(ResultPool, MaxRunResults) }
    /\ single_team_results \in SinglesOfRun
    /\ leaderboard_scores \in LeaderboardsOfRun
    /\ games = <<>>
    /\ used_lineup_ids = {}
    /\ game_id = 1
    /\ ri = 1
    /\ li = 1
    /\ stage = "match"
    /\ bi = 1

\* results.extend(match_single_team_results(single_team_results, lineups))
MatchSingleTeamResults ==
    /\ stage = "match"
    /\ results' = results \o
           match_single_team_results(single_team_results, lineups)
    /\ stage' = "link"
    /\ UNCHANGED <<appVars, lineups, games, used_lineup_ids, game_id, ri, li,
                   single_team_results, leaderboard_scores, bi,
                   resVars, idVars, fnVars>>

\* one iteration of the fill loop  for game in games
FillScores ==
    /\ stage = "link"
    /\ LinkDone
    /\ bi <= Len(games)
    /\ games' = [games EXCEPT ![bi] = FilledGame(games[bi], leaderboard_scores)]
    /\ bi' = bi + 1
    /\ UNCHANGED <<appVars, lineups, results, used_lineup_ids, game_id, ri, li,
                   single_team_results, leaderboard_scores, stage,
                   resVars, idVars, fnVars>>

\* the key of games.sort: (g.game_date or "", g.game_id); the empty date is
\* before every date
GameBefore(g, h) ==
    LET kg == IF HasDate(g.game_date) THEN FromIso(g.game_date) ELSE NoDay
        kh == IF HasDate(h.game_date) THEN FromIso(h.game_date) ELSE NoDay
    IN  kg < kh \/ (kg = kh /\ g.game_id < h.game_id)

SortedGames(gs) ==
    LET all == { gs[i] : i \in 1..Len(gs) }
    IN  [i \in 1..Len(gs) |->
            CHOOSE g \in all : Cardinality({h \in all : GameBefore(h, g)}) = i - 1]

\* games.sort(key=lambda g: (g.game_date or "", g.game_id))
SortGames ==
    /\ stage = "link"
    /\ LinkDone
    /\ bi > Len(games)
    /\ games' = SortedGames(games)
    /\ stage' = "sorted"
    /\ UNCHANGED <<appVars, lineups, results, used_lineup_ids, game_id, ri, li,
                   single_team_results, leaderboard_scores, bi,
                   resVars, idVars, fnVars>>

NextRun ==
    MatchSingleTeamResults \/ LinkResult \/ AddUnmatchedLineup \/ FillScores
    \/ SortGames

SpecRun == InitRun /\ [][NextRun]_vars

\* run_parser has filled the last game
RunDone == stage = "sorted"

\* C14: in every CompleteGame of a run (matched in the same or in swapped
\* orientation, result-only, lineup-only, of a result made of two
\* single-team results, or with filled scores) winner is "A", "B" or null.
C14_WinnerDomain ==
    \A g \in 1..Len(games) : games[g].winner \in {"A", "B", "None"}

\* a finished run with a game of a result made of two single-team results,
\* matched to a lineup with the sides swapped and a winner, and a game of
\* an extracted result
C14_Witness ==
    /\ RunDone
    /\ \E g \in 1..Len(games) :
          /\ games[g].result_comment_id \in SingleIds
          /\ games[g].lineup_comment_id # NoId
          /\ teams_swapped(lineups[games[g].lineup_comment_id],
                           CHOOSE r \in {results[k] : k \in 1..Len(results)} :
                               r.comment_id = games[g].result_comment_id)
          /\ games[g].winner \in {"A", "B"}
    /\ \E g \in 1..Len(games) :
          games[g].result_comment_id \notin SingleIds \cup {NoId}

\* every lineup-side and result-side field of the game is on the side
\* opposite to the one it has in the lineup / in the result
SidesCrossed(game, lu, result) ==
    /\ game.captain_a = lu.captain_b /\ game.captain_b = lu.captain_a
    /\ game.players_a = lu.players_b /\ game.players_b = lu.players_a
    /\ game.seed_a = lu.seed_b /\ game.seed_b = lu.seed_a
    /\ game.score_a = result.score_b /\ game.score_b = result.score_a
    /\ game.adjustment_a = result.adjustment_b
    /\ game.adjustment_b = result.adjustment_a
    /\ game.winner = (IF result.winner = "A" THEN "B"
                      ELSE IF result.winner = "B" THEN "A" ELSE "None")

\* every field of the game is on the side it has in the lineup / result
SidesKept(game, lu, result) ==
    /\ game.captain_a = lu.captain_a /\ game.captain_b = lu.captain_b
    /\ game.players_a = lu.players_a /\ game.players_b = lu.players_b
    /\ game.seed_a = lu.seed_a /\ game.seed_b = lu.seed_b
    /\ game.score_a = result.score_a /\ game.score_b = result.score_b
    /\ game.adjustment_a = result.adjustment_a
    /\ game.adjustment_b = result.adjustment_b
    /\ game.winner = result.winner

\* C15: in a game of a result and its matched lineup, when the lineup's
\* team A corresponds (by the linker's own name test) to the result's team
\* B and not to its team A, captain, roster, seed, score, adjustment and
\* winner are all on the opposite side; when it corresponds to the result's
\* team A, every field keeps its side.
C15_SwapFollowsTeams ==
    \A g \in 1..Len(games) :
        (games[g].lineup_comment_id # NoId /\ games[g].result_comment_id # NoId) =>
            LET lu == lineups[games[g].lineup_comment_id]
                result == results[games[g].result_comment_id]
                to_a == fuzzy_team_match(lu.team_a, result.team_a)
                to_b == fuzzy_team_match(lu.team_a, result.team_b)
            IN  /\ (to_b /\ ~to_a) => SidesCrossed(games[g], lu, result)
                /\ to_a => SidesKept(games[g], lu, result)

\* ---------------------------------------------------------------------
\* Dates and choice of the lineup a result is paired with
\* (link_results_to_lineups, Strategy 1 and Strategy 2)
\* ---------------------------------------------------------------------

\* games that carry both the comment of a lineup and the comment of a result
LinkedGames ==
    { g \in 1..Len(games) :
        games[g].lineup_comment_id # NoId /\ games[g].result_comment_id # NoId }

\* used_lineup_ids as it was when the result of game g was processed
UsedBefore(g) == { games[h].lineup_comment_id : h \in 1..(g - 1) } \ {NoId}

\* days from the lineup's date to the result's date (both dates valid)
DaysBefore(lu, result) == FromIso(result.game_date) - FromIso(lu.game_date)

BothDated(lu, result) == HasDate(lu.game_date) /\ HasDate(result.game_date)

\* the lineup passes the team test for the result and is dated on the
\* result's date or 1 to 3 days earlier
InDateWindow(lu, result) ==
    /\ BothDated(lu, result)
    /\ DaysBefore(lu, result) \in 0..3
    /\ teams_match(lu.team_a, lu.team_b, result.team_a, result.team_b)

\* C16: whenever a result is paired with a lineup and both carry valid
\* dates, the lineup's date is not later than the result's date and at
\* most 7 days earlier.
C16_LineupNotAfterResult ==
    \A g \in LinkedGames :
        LET lu == lineups[games[g].lineup_comment_id]
            result == results[games[g].result_comment_id]
        IN  BothDated(lu, result) => DaysBefore(lu, result) \in 0..7

\* C17: if, when a result is processed, some unconsumed lineup dated on
\* the result's date or 1 to 3 days earlier passes the team test, the
\* result is paired with a lineup and is not emitted as a result-only game.
C17_WindowLineupIsPaired ==
    \A g \in 1..Len(games) :
        games[g].result_comment_id # NoId =>
            LET result == results[games[g].result_comment_id]
            IN  (\E l \in 1..Len(lineups) :
                    /\ l \notin UsedBefore(g)
                    /\ InDateWindow(lineups[l], result))
                => games[g].lineup_comment_id # NoId

\* C18: when several unconsumed lineups satisfy the date and team test for
\* a result, the one selected has the latest game date among them,
\* whatever the order in which the lineups were extracted.
C18_LatestCandidateSelected ==
    \A g \in LinkedGames :
        LET lu == lineups[games[g].lineup_comment_id]
            result == results[games[g].result_comment_id]
        IN  InDateWindow(lu, result) =>
                \A l \in 1..Len(lineups) :
                    (l \notin UsedBefore(g) /\ InDateWindow(lineups[l], result))
                    => FromIso(lineups[l].game_date) <= FromIso(lu.game_date)

\* ---------------------------------------------------------------------
\* Results made of two single-team results (match_single_team_results)
\* ---------------------------------------------------------------------

\* the results of the run that match_single_team_results made
PairedResults ==
    { r \in { results[k] : k \in 1..Len(results) } : "paired" \in DOMAIN r }

\* the single-team result's team is equal to, contains or is contained in
\* the (non-empty) team name
NamesTeam(sr, team) ==
    /\ team # <<>>
    /\ \/ Lower(sr.team) = Lower(team)
       \/ IsSubstr(Lower(sr.team), Lower(team))
       \/ IsSubstr(Lower(team), Lower(sr.team))

\* the lineup names both teams of the two single-team results, each with a
\* different one of its two non-empty team names
NamesBoth(lu, s1, s2) ==
    /\ lu.team_a # <<>> /\ lu.team_b # <<>>
    /\ \/ (NamesTeam(s1, lu.team_a) /\ NamesTeam(s2, lu.team_b))
       \/ (NamesTeam(s1, lu.team_b) /\ NamesTeam(s2, lu.team_a))

\* C19: two single-team results are paired only when they have the same
\* date and a lineup of that date names both of their teams, each with a
\* different one of its two non-empty team names.
C19_PairedOnlyUnderLineup ==
    \A r \in PairedResults :
        /\ HasDate(r.paired[1].game_date)
        /\ r.paired[1].game_date = r.paired[2].game_date
        /\ r.by.game_date = r.paired[1].game_date
        /\ NamesBoth(r.by, r.paired[1], r.paired[2])

\* a single-team result as a parsed result line: its marker and its score
AsResultLine(sr) ==
    [team |-> sr.team, score |-> SomeScore(sr.score),
     winner |-> IF sr.is_winner = "True" THEN "win"
                ELSE IF sr.is_winner = "False" THEN "loss" ELSE "None"]

\* C20: the winner of a result made of two single-team results follows the
\* precedence of full results: a win marker on either side, else the side
\* opposite a loss marker, else the strictly higher score, else null.
C20_PairedWinnerPrecedence ==
    \A r \in PairedResults :
        r.winner = DetermineWinner(AsResultLine(r.paired[1]),
                                   AsResultLine(r.paired[2]))

\* ---------------------------------------------------------------------
\* Scores filled from the leaderboard posts (run_parser)
\* ---------------------------------------------------------------------

\* the leaderboard index has an entry for the team on the day
OnLeaderboard(lb, day, team) ==
    /\ IsoDate(day) \in DOMAIN lb
    /\ LowerOrEmpty(team) \in DOMAIN lb[IsoDate(day)]

\* the days, from the game's date to two days later, on which both teams of
\* the game have an entry
BackfillDays(game, lb) ==
    { FromIso(game.game_date) + o : o \in 0..2 } \cap
    { day \in 0..(FromIso(game.game_date) + 2) :
          OnLeaderboard(lb, day, game.team_a) /\ OnLeaderboard(lb, day, game.team_b) }

\* C21: a game without scores after linking gets both scores from the
\* leaderboard entries of its date, of the following day or of the day
\* after, the first on which both of its teams have entries.
C21_BackfillFromLeaderboard ==
    RunDone =>
        \A g \in 1..Len(games) :
            (HasDate(games[g].game_date)
             /\ BackfillDays(games[g], leaderboard_scores) # {})
            => ~games[g].score_a.none /\ ~games[g].score_b.none

\* ---------------------------------------------------------------------
\* Rank patterns of PlayerDiscovery (strategy_rank_pattern)
\* ---------------------------------------------------------------------

\* the ids within the pattern tolerance of the handle's expected rank on
\* every date the handle has a rank, in the rows fetched for that date
OnEveryDate(rankings, cache) ==
    { id \in Ids :
        \A d \in DOMAIN rankings :
            /\ cache[d].present
            /\ id \in Candidates(cache[d].rows, rankings[d], PatternTolerance) }

\* C22: a high-confidence rank-pattern record is stored for a handle only
\* if the handle has expected ranks on two dates at least and its id is the
\* one id within 30 of the expected rank on every one of those dates.
C22_HighOnEveryDate ==
    prog = "pd" =>
        \A h \in DOMAIN found.rank :
            found.rank[h].confidence = "high" =>
                LET rankings == Rankings(players, h)
                IN  /\ Cardinality(DOMAIN rankings) >= 2
                    /\ OnEveryDate(rankings, karma_cache) = {found.rank[h].user_id}

\* ---------------------------------------------------------------------
\* Verification of uncertain rank discoveries against the id's history
\* ---------------------------------------------------------------------

\* an uncertain match whose id has, in its history, a rank for the game
\* date further than the tolerance from the rank of the snapshot
RankMismatch(p) ==
    /\ p.uncertain /\ p.player_id # NoUser
    /\ p.player_id \in DOMAIN ranked_days_cache
    /\ LET day_data == DayOf(ranked_days_cache[p.player_id], p.game_date)
       IN  /\ day_data # <<>>
           /\ Abs(day_data[1].rank - p.karma_rank) > VerifyTolerance

\* the pair is in the merged handle-to-id mapping the run writes:
\* merged_handle_to_id.update(self.discovered_ids)
InMergedMapping(handle, user_id) ==
    /\ Lower(handle) \in DOMAIN discoveries
    /\ discoveries[Lower(handle)].user_id = user_id

\* C23: once verification is over, an uncertain rank match whose id's
\* history contradicts the snapshot rank by more than 5 is flagged
\* rejected, keeps its id in the roster entry, and its handle-to-id pair is
\* not in the mapping the run outputs.
C23_RejectedNotCarried ==
    (prog \in {"km", "s6"} /\ pc.phase = "done") =>
        \A k \in 1..Len(players) :
            RankMismatch(players[k]) =>
                /\ players[k].rejected
                /\ players[k].player_id # NoUser
                /\ ~InMergedMapping(players[k].handle, players[k].player_id)

\* ---------------------------------------------------------------------
\* Confidence of a username match (strategy_username_match of
\* PlayerDiscovery, discover_by_username of S6Reconstructor)
\* ---------------------------------------------------------------------

\* n times the character c
Rep(c, n) == [i \in 1..n |-> c]

\* the handles graded: against the usernames below they give the ratios
\* 1, 20/21, 38/40, 10/11, 18/20, 6/7, 4/5 and lower ones
GradeHandles ==
    { Rep("a", 3), <<"A", "a", "a">>, Rep("a", 2), Rep("a", 5), Rep("a", 10),
      Rep("a", 9) \o <<"b">>, Rep("a", 19) \o <<"b">> }

GradeNames ==
    { Rep("a", 3), Rep("a", 2) \o <<"b">>, Rep("a", 3) \o <<"b">>,
      Rep("a", 5) \o <<"b">>, Rep("a", 10) \o <<"b">>,
      Rep("a", 9) \o <<"c">>, Rep("a", 19) \o <<"c">> }

\* the rows the username index is built from
GradeRows == [user_id : Ids, username : GradeNames, rank : {100}]

\* the number of rows of the index
MaxGradeRows == 2

NoMatch == [user_id |-> NoUser, confidence |-> "none", method |-> "none"]

\* a set of records the implementation may return, None as a record
Returned(records) == IF records = {} THEN {NoMatch} ELSE records

InitGrade ==
    /\ LinkIdle /\ ResIdle /\ IdIdle /\ AppIdle
    /\ arg \in [handle : GradeHandles, rows : SeqsUpTo(GradeRows, MaxGradeRows)]
    /\ ret = [status |-> "idle"]

\* PlayerDiscovery.strategy_username_match on the handle of a profile
GradePd ==
    /\ ret.status = "idle"
    /\ \E r \in Returned(strategy_username_match(Lower(arg.handle), arg.rows)) :
          ret' = [status |-> "graded", by |-> "pd", out |-> r]
    /\ UNCHANGED <<appVars, arg, linkVars, resVars, idVars>>

\* S6Reconstructor.discover_by_username on a handle
GradeS6 ==
    /\ ret.status = "idle"
    /\ \E r \in Returned(discover_by_username(arg.handle, arg.rows)) :
          ret' = [status |-> "graded", by |-> "s6", out |-> r]
    /\ UNCHANGED <<appVars, arg, linkVars, resVars, idVars>>

NextGrade == GradePd \/ GradeS6

SpecGrade == InitGrade /\ [][NextGrade]_vars

\* the usernames of the index that belong to one id only
Unambiguous(rows) ==
    { u \in { IndexNames(rows)[k] : k \in 1..Len(IndexNames(rows)) } :
        Cardinality(IndexIds(rows, u)) = 1 }

\* the grade stated for a handle: high on equality, else by the ratio of the
\* most similar unambiguous username
StatedGrade(handle_lower, rows) ==
    LET names == Unambiguous(rows)
        over(q) == \E u \in names : RatioGt(Ratio(handle_lower, u), q)
    IN  IF handle_lower \in names THEN "high"
        ELSE IF over(HighThreshold) THEN "high"
        ELSE IF over(MediumThreshold) THEN "medium"
        ELSE IF over(FuzzyThreshold) THEN "low"
        ELSE "none"

\* C24: in both implementations the confidence of a username match is
\* high on equality, else high for a ratio above 0.95, medium above 0.90,
\* low above 0.85, and there is no match at 0.85 or below.
C24_GradeByRatio ==
    ret.status = "graded" =>
        ret.out.confidence = StatedGrade(Lower(arg.handle), arg.rows)

(***************************************************************************)
(* API verification over more candidates than user_ids[:5] examines         *)
(***************************************************************************)
ApiUsers == {"u1", "u2", "u3", "u4", "u5", "u6"}

\* the karma_rankings rows of the one game date: six users near rank 100
ApiRows ==
    << [user_id |-> "u1", username |-> Aba, rank |-> 100],
       [user_id |-> "u2", username |-> Aba, rank |-> 102],
       [user_id |-> "u3", username |-> Aba, rank |-> 105],
       [user_id |-> "u4", username |-> Aba, rank |-> 110],
       [user_id |-> "u5", username |-> Aba, rank |-> 120],
       [user_id |-> "u6", username |-> Aba, rank |-> 140] >>

\* the ranked days the history source holds for each user: one in-season
\* day for the users of holders, nothing for the others
ApiHistories ==
    { [id \in ApiUsers |-> IF id \in holders
                           THEN << [day |-> 1, rank |-> 100] >> ELSE <<>>] :
        holders \in SUBSET {"u1", "u6"} }

\* run_all_strategies of one unresolved handle with six users within 50
\* ranks of its ranking; arg is what the history source holds
InitApi ==
    /\ LinkIdle /\ ResIdle /\ AppIdle
    /\ arg \in ApiHistories /\ ret = [status |-> "idle"]
    /\ prog = "pd"
    /\ supabase = TRUE
    /\ source = [d \in Dates |-> IF d = 1 THEN ApiRows ELSE <<>>]
    /\ players \in { <<Entry(Dd, 1, r, NoUser)>> : r \in {100, 110} }
    /\ pc = Enter("fetch")
    /\ karma_cache = [d \in Dates |-> NotCached]
    /\ requests = [d \in Dates |-> 0]
    /\ ranked_days_cache = <<>>
    /\ traversals = [id \in ApiUsers |-> 0]
    /\ fetch = NoFetch
    /\ discoveries = <<>>
    /\ date_matched_ids = [d \in Dates |-> {}]
    /\ found = [username |-> <<>>, rank |-> <<>>, api |-> <<>>]
    /\ api = [handles |-> <<>>, candidates |-> <<>>, best |-> <<>>]

\* one iteration of  while True:  in _fetch_ranked_days, answered by a
\* source that holds arg: the days of the user on the first page, and an
\* empty page after them
ServedPage ==
    /\ FetchPage
    /\ ~fetch'.failed
    /\ fetch'.all_data = arg[fetch.user_id]
    /\ fetch'.active = (fetch.all_data # arg[fetch.user_id])

NextApi ==
    \/ PdFetchKarma \/ PdUsernameMatch \/ PdMergeUsername
    \/ PdRankPattern \/ PdMergeRank \/ PdCollect
    \/ PdApiCandidate \/ PdApiRecord \/ PdMergeApi
    \/ ServedPage

SpecApi == InitApi /\ [][NextApi]_vars

\* the distance of a user's snapshot rank from the expected rank, the
\* nearest over the handle's dates
SnapshotDistance(id, handle) ==
    LET rankings == Rankings(players, handle)
        at(d) == { Abs(RowsOf(karma_cache, d)[k].rank - rankings[d]) :
                     k \in { n \in 1..Len(RowsOf(karma_cache, d)) :
                               RowsOf(karma_cache, d)[n].user_id = id } }
        ds == UNION { at(d) : d \in DOMAIN rankings }
    IN  CHOOSE x \in ds : \A y \in ds : x <= y

\* the (at most) five candidates whose snapshot rank is closest
ClosestFive(handle) ==
    LET cands == RemainingCandidates(handle, players, karma_cache)
    IN  { id \in cands :
            Cardinality({ o \in cands : SnapshotDistance(o, handle)
                                          < SnapshotDistance(id, handle) })
              < ApiLimit }

\* [score, matches] of a user's history against the handle's rankings
Deviation(id, handle) ==
    LET expected_rankings == Rankings(players, handle)
        dates == { d \in DOMAIN expected_rankings :
                     \E k \in 1..Len(arg[id]) : arg[id][k].day = d }
    IN  [score |-> Score(arg[id], expected_rankings, dates),
         matches |-> Cardinality(dates)]

\* the candidates of ids whose average deviation is below 30
Acceptable(ids, handle) ==
    { id \in ids : /\ Deviation(id, handle).matches > 0
                   /\ Deviation(id, handle).score
                        < ApiTolerance * Deviation(id, handle).matches }

\* C25: in history verification the candidates examined for a handle are the
\* five whose snapshot rank is closest to the expected rank; the accepted one
\* has the lowest average deviation among them, only if below 30, with
\* confidence high below 10 and medium otherwise.
C25_ClosestFiveExamined ==
    (prog = "pd" /\ pc.phase = "done" /\ arg \in ApiHistories) =>
        \A k \in 1..Len(api.handles) :
            LET handle == api.handles[k]
                ok == Acceptable(ClosestFive(handle), handle)
            IN  IF ok = {} THEN handle \notin DOMAIN found.api
                ELSE /\ handle \in DOMAIN found.api
                     /\ found.api[handle].user_id \in ok
                     /\ \A o \in ok :
                           Deviation(found.api[handle].user_id, handle).score
                             * Deviation(o, handle).matches
                           <= Deviation(o, handle).score
                             * Deviation(found.api[handle].user_id, handle).matches
                     /\ found.api[handle].confidence =
                           IF Deviation(found.api[handle].user_id, handle).score
                                < ApiHigh
                                  * Deviation(found.api[handle].user_id, handle).matches
                           THEN "high" ELSE "medium"

\* ---------------------------------------------------------------------
\* The two sides of a game built from a lineup and a result
\* ---------------------------------------------------------------------

\* the sides of the lineup whose team has the given name
SidesInLineup(lu, team) ==
    { s \in {"a", "b"} : (IF s = "a" THEN lu.team_a ELSE lu.team_b) = team }

\* [players, captain, seed] of a side of the lineup
LineupEntries(lu, s) ==
    IF s = "a"
    THEN [players |-> lu.players_a, captain |-> lu.captain_a, seed |-> lu.seed_a]
    ELSE [players |-> lu.players_b, captain |-> lu.captain_b, seed |-> lu.seed_b]

\* the sides of the result whose team the linker's name test matches to team
SidesInResult(result, team) ==
    { s \in {"a", "b"} :
        fuzzy_team_match(team, IF s = "a" THEN result.team_a ELSE result.team_b) }

\* [score, adjustment] of a side of the result
ResultEntries(result, s) ==
    IF s = "a"
    THEN [score |-> result.score_a, adjustment |-> result.adjustment_a]
    ELSE [score |-> result.score_b, adjustment |-> result.adjustment_b]

\* the fields of one side of the game are the lineup's and the result's
\* entries for the team the game names on that side
SideOfTeam(lu, result, team, roster, captain, seed, score, adjustment) ==
    /\ [players |-> roster, captain |-> captain, seed |-> seed]
         \in { LineupEntries(lu, s) : s \in SidesInLineup(lu, team) }
    /\ SidesInResult(result, team) # {} =>
         [score |-> score, adjustment |-> adjustment]
           \in { ResultEntries(result, s) : s \in SidesInResult(result, team) }

\* C26: in every game built from a matched lineup and result, players,
\* captain and seed of side A are the lineup's entries for the team named in
\* team_a and score and adjustment of side A are the result's entries for
\* that team, and likewise for side B, swapped pairing or not.
C26_SidesDescribeOneTeam ==
    \A g \in LinkedGames :
        LET game == games[g]
            lu == lineups[game.lineup_comment_id]
            result == results[game.result_comment_id]
        IN  /\ SideOfTeam(lu, result, game.team_a, game.players_a,
                          game.captain_a, game.seed_a, game.score_a,
                          game.adjustment_a)
            /\ SideOfTeam(lu, result, game.team_b, game.players_b,
                          game.captain_b, game.seed_b, game.score_b,
                          game.adjustment_b)

(***************************************************************************)
(* Rank discovery over rosters of two handles on two dates                  *)
(***************************************************************************)
\* the rosters: three different entries of the unknown handles, in any order
SeasonRosters ==
    { ps \in [1..3 -> { e \in EntryPool : e.player_id = NoUser }] :
        \A i, j \in 1..3 : ps[i] = ps[j] => i = j }

InitSeason ==
    /\ LinkIdle /\ ResIdle /\ FnIdle /\ AppIdle
    /\ prog \in {"km", "s6"}
    /\ supabase = TRUE
    /\ source \in [Dates -> DayRows]
    /\ players \in SeasonRosters
    /\ pc = Enter("prefetch")
    /\ karma_cache = [d \in Dates |-> NotCached]
    /\ requests = [d \in Dates |-> 0]
    /\ ranked_days_cache = <<>>
    /\ traversals = [id \in Ids |-> 0]
    /\ fetch = NoFetch
    /\ discoveries = <<>>
    /\ date_matched_ids = [d \in Dates |-> {}]
    /\ found = [username |-> <<>>, rank |-> <<>>, api |-> <<>>]
    /\ api = [handles |-> <<>>, candidates |-> <<>>, best |-> <<>>]

NextSeason ==
    \/ Prefetch \/ KmPhase1 \/ KmPhase2 \/ Verify
    \/ S6Phase1 \/ S6Phase2 \/ S6Phase3
    \/ FetchPage

SpecSeason == InitSeason /\ [][NextSeason]_vars

\* the roster entry holds an id given by rank discovery, found by rank or
\* taken again from the handle's earlier discovery
RankDiscovered(p) ==
    /\ p.player_id # NoUser
    /\ p.match \in {"rank_discovery", "previously_discovered"}

\* C27: after process_games / phase 3, no two roster entries of one game
\* date with different handles carry the same discovered id, the entries
\* filled through the previously-discovered path included.
C27_OneHandlePerIdOnDate ==
    (prog \in {"km", "s6"} /\ pc.phase \in {"verify", "done"}) =>
        \A k1, k2 \in 1..Len(players) :
            ( /\ players[k1].game_date = players[k2].game_date
              /\ Lower(players[k1].handle) # Lower(players[k2].handle)
              /\ RankDiscovered(players[k1])
              /\ RankDiscovered(players[k2]) )
            => players[k1].player_id # players[k2].player_id

(***************************************************************************)
(* app.py: run_auto_extract_for_thread / run_auto_extract_bulk, run by the  *)
(* script threads of the browser sessions on the one cached connection      *)
(***************************************************************************)
Sessions == {"s1", "s2"}

\* game_date / linked_extract_id is NULL
Null == 0

Cats == <<"c">>
Dogs == <<"A", "b">>

\* what the extractors of auto_extract_comment find in the text of a post:
\* its kind by guess_kind and, for a lineup or a result, its two teams
Post(kind, team_a, team_b) == [kind |-> kind, team_a |-> team_a, team_b |-> team_b]
OtherPost == Post("other", <<>>, <<>>)

\* a row of rkl_comments; created_at_ts is kept as its Eastern day
Comment(id, src, root, day, post) ==
    [comment_id |-> id, source |-> src, thread_root_id |-> root,
     parent_comment_id |-> root, created_at_ts |-> day, post |-> post]

\* two feed threads: the lineups of day 10 with one lineup reply, and the
\* results thread of a later day with two replies
CommentTables ==
    { <<Comment(1, "feed", Null, 10, OtherPost),
        Comment(2, "replies", 1, 10, Post("lineup", Cats, Dogs)),
        Comment(3, "feed", Null, day, OtherPost),
        Comment(4, "replies", 3, day, r1),
        Comment(5, "replies", 3, day, r2)>> :
        day \in {11, 14},
        r1 \in { Post("result", Cats, Dogs), Post("result", Dogs, Cats) },
        r2 \in { Post("result", <<"C">>, <<"a", "b">>), OtherPost } }

\* the thread_ids a session passes to run_auto_extract_bulk
ThreadLists == { <<1>>, <<3>>, <<1, 3>>, <<7>> }

\* the runs one session makes
MaxInvocations == 1

NoResult == <<>>

IdleSession(skip) ==
    [skip_existing |-> skip, runs |-> 0, at |-> "idle", thread_ids |-> <<>>,
     thread_id |-> Null, replies |-> <<>>, comment_id |-> Null,
     result |-> NoResult]

InitApp ==
    /\ LinkIdle /\ ResIdle /\ IdIdle /\ FnIdle
    /\ rkl_comments \in CommentTables
    /\ manual_extract = <<>>
    /\ sessions \in { [s \in Sessions |-> IdleSession(skip[s])] :
                        skip \in [Sessions -> BOOLEAN] }

\* SELECT ... FROM rkl_comments WHERE comment_id = ?
CommentRows(id) ==
    SelectSeq(rkl_comments, LAMBDA c : c.comment_id = id)

\* SELECT ... WHERE source='replies' AND (thread_root_id = ? OR
\* parent_comment_id = ?) ORDER BY created_at_ts ASC  (the comment ids)
RepliesOf(thread_id) ==
    LET rows == SelectSeq(rkl_comments,
                   LAMBDA c : /\ c.source = "replies"
                              /\ \/ c.thread_root_id = thread_id
                                 \/ c.parent_comment_id = thread_id)
    IN  [k \in 1..Len(rows) |-> rows[k].comment_id]

\* SELECT id FROM manual_extract WHERE comment_id = ? LIMIT 1
Existing(table, comment_id) ==
    SelectSeq(table, LAMBDA r : r.comment_id = comment_id)

\* date(?, '-3 days')
LineupWindow == 3

\* lower(team) = ?  and  lower(team) LIKE '%' || ? || '%'
SqlEquals(name, pattern) == name = pattern
SqlLike(name, pattern) == IsSubstr(pattern, name)

\* the lineup rows of the two teams in either order, within the date range
LineupRows(table, exact, team_a_lower, team_b_lower, result_date) ==
    LET same(x, y) == IF exact THEN SqlEquals(x, y) ELSE SqlLike(x, y)
    IN  SelectSeq(table,
           LAMBDA r : /\ r.kind = "lineup"
                      /\ \/ /\ same(Lower(r.team_a), team_a_lower)
                            /\ same(Lower(r.team_b), team_b_lower)
                         \/ /\ same(Lower(r.team_a), team_b_lower)
                            /\ same(Lower(r.team_b), team_a_lower)
                      /\ result_date # Null =>
                            /\ r.game_date # Null
                            /\ r.game_date <= result_date
                            /\ r.game_date >= result_date - LineupWindow)

\* find_matching_lineup(team_a, team_b, result_date): the rows that can be
\* matches[0] under ORDER BY game_date DESC (rows of one game_date come in an
\* order the query leaves open); empty for None
find_matching_lineup(table, team_a, team_b, result_date) ==
    IF team_a = <<>> \/ team_b = <<>> THEN {}
    ELSE LET exact == LineupRows(table, TRUE, Lower(team_a), Lower(team_b),
                                 result_date)
             matches == IF exact # <<>> THEN exact
                        ELSE LineupRows(table, FALSE, Lower(team_a),
                                        Lower(team_b), result_date)
         IN  { matches[k] : k \in { n \in 1..Len(matches) :
                 \A j \in 1..Len(matches) :
                    matches[j].game_date <= matches[n].game_date } }

\* the row auto_extract_comment returns for a post once its lineup is
\* looked up: linked is the result of find_matching_lineup, <<>> for None
ExtractRow(thread_id, comment_id, post, game_date, linked) ==
    [thread_id |-> thread_id, comment_id |-> comment_id, kind |-> post.kind,
     game_date |-> IF linked # <<>> THEN linked[1].game_date ELSE game_date,
     team_a |-> post.team_a, team_b |-> post.team_b,
     linked_extract_id |-> IF linked # <<>> THEN linked[1].id ELSE Null]

\* auto_extract_comment(...) against the table as it is now: the rows it can
\* return, as one-element lists, or NoResult for None
auto_extract_comment(table, thread_id, comment_id, post, thread_created_ts) ==
    IF post.kind = "result"
    THEN IF post.team_a = <<>> \/ post.team_b = <<>> THEN { NoResult }
         ELSE LET found_rows == find_matching_lineup(table, post.team_a,
                                    post.team_b, thread_created_ts)
              IN  IF found_rows = {}
                  THEN { <<ExtractRow(thread_id, comment_id, post,
                                      thread_created_ts, <<>>)>> }
                  ELSE { <<ExtractRow(thread_id, comment_id, post,
                                      thread_created_ts, <<lu>>)>> :
                           lu \in found_rows }
    ELSE IF post.kind # "lineup" THEN { NoResult }
    ELSE IF post.team_a = <<>> /\ post.team_b = <<>> THEN { NoResult }
    ELSE { <<ExtractRow(thread_id, comment_id, post, thread_created_ts, <<>>)>> }

\* the session moves on to its next comment: the replies are read after the
\* thread's own post, and the next thread follows the last reply
Advance(ses, fresh) ==
    LET replies == IF fresh THEN RepliesOf(ses.thread_id) ELSE ses.replies
    IN  IF replies = <<>>
        THEN [ses EXCEPT !.at = "thread", !.thread_ids = Tail(@),
                         !.replies = <<>>, !.comment_id = Null,
                         !.result = NoResult]
        ELSE [ses EXCEPT !.at = "check", !.replies = Tail(replies),
                         !.comment_id = Head(replies), !.result = NoResult]

\* the comment at hand is the thread's own post
AtRoot(ses) == ses.comment_id = ses.thread_id

\* a session calls run_auto_extract_bulk(thread_ids, skip_existing)
Invoke(s) ==
    /\ sessions[s].at = "idle"
    /\ sessions[s].runs < MaxInvocations
    /\ \E thread_ids \in ThreadLists :
          sessions' = [sessions EXCEPT ![s].at = "thread",
                                       ![s].runs = @ + 1,
                                       ![s].thread_ids = thread_ids]
    /\ UNCHANGED <<rkl_comments, manual_extract, linkVars, resVars, idVars, fnVars>>

\* for tid in thread_ids, and the head of run_auto_extract_for_thread: the
\* thread is read, and a thread that is not there returns (0, 0)
OpenThread(s) ==
    /\ sessions[s].at = "thread"
    /\ LET ses == sessions[s]
       IN  sessions' =
             [sessions EXCEPT ![s] =
                IF ses.thread_ids = <<>>
                THEN [ses EXCEPT !.at = "idle", !.thread_id = Null]
                ELSE IF CommentRows(Head(ses.thread_ids)) = <<>>
                THEN [ses EXCEPT !.thread_ids = Tail(@)]
                ELSE [ses EXCEPT !.at = "check",
                                 !.thread_id = Head(ses.thread_ids),
                                 !.comment_id = Head(ses.thread_ids)]]
    /\ UNCHANGED <<rkl_comments, manual_extract, linkVars, resVars, idVars, fnVars>>

\* if skip_existing: existing = q("SELECT id FROM manual_extract WHERE
\* comment_id = ? LIMIT 1"); a comment with a row is skipped
CheckExisting(s) ==
    /\ sessions[s].at = "check"
    /\ LET ses == sessions[s]
       IN  sessions' =
             [sessions EXCEPT ![s] =
                IF ses.skip_existing
                   /\ Existing(manual_extract, ses.comment_id) # <<>>
                THEN Advance(ses, AtRoot(ses))
                ELSE [ses EXCEPT !.at = "extract"]]
    /\ UNCHANGED <<rkl_comments, manual_extract, linkVars, resVars, idVars, fnVars>>

\* result = auto_extract_comment(...), which reads manual_extract for the
\* lineup of a result
Extract(s) ==
    /\ sessions[s].at = "extract"
    /\ LET ses == sessions[s]
           thread == CommentRows(ses.thread_id)[1]
           comment == CommentRows(ses.comment_id)[1]
       IN  \E result \in auto_extract_comment(manual_extract, ses.thread_id,
                             ses.comment_id, comment.post, thread.created_at_ts) :
              sessions' =
                [sessions EXCEPT ![s] =
                   IF result = NoResult THEN Advance(ses, AtRoot(ses))
                   ELSE [ses EXCEPT !.at = "insert", !.result = result]]
    /\ UNCHANGED <<rkl_comments, manual_extract, linkVars, resVars, idVars, fnVars>>

\* x("INSERT INTO manual_extract(...) VALUES (...)"): the row gets the next
\* id of the AUTOINCREMENT key
Insert(s) ==
    /\ sessions[s].at = "insert"
    /\ LET ses == sessions[s]
           row == [id |-> Len(manual_extract) + 1] @@ ses.result[1]
       IN  /\ manual_extract' = Append(manual_extract, row)
           /\ sessions' = [sessions EXCEPT ![s] = Advance(ses, AtRoot(ses))]
    /\ UNCHANGED <<rkl_comments, linkVars, resVars, idVars, fnVars>>

NextApp ==
    \E s \in Sessions :
       \/ Invoke(s) \/ OpenThread(s) \/ CheckExisting(s)
       \/ Extract(s) \/ Insert(s)

SpecApp == InitApp /\ [][NextApp]_vars

\* every run so far was made with skip_existing on
AllSkipExisting == \A s \in Sessions : sessions[s].skip_existing

\* C28: with skip_existing on, after any runs of the auto-extract, the runs
\* of two sessions interleaved on the shared connection included, no comment
\* has more than one auto-extracted row.
C28_OneRowPerComment ==
    (rkl_comments # <<>> /\ AllSkipExisting) =>
        \A i, j \in 1..Len(manual_extract) :
            manual_extract[i].comment_id = manual_extract[j].comment_id => i = j

\* C29: a lineup row is the linked_extract_id of at most one result row: a
\* lineup linked by the result of one post is not linked again by the result
\* of a later post.
C29_LineupLinkedOnce ==
    \A i, j \in 1..Len(manual_extract) :
        ( /\ manual_extract[i].kind = "result"
          /\ manual_extract[j].kind = "result"
          /\ manual_extract[i].comment_id # manual_extract[j].comment_id
          /\ manual_extract[i].linked_extract_id # Null )
        => manual_extract[i].linked_extract_id
             # manual_extract[j].linked_extract_id

(***************************************************************************)
(* parse_rkl_games.py: the captains of an extracted lineup.  A line of a    *)
(* post records, besides the above, vs_bare (STANDALONE_VS_RE matches the   *)
(* line as it is), caps (for each mention of the line what follows it:      *)
(* "explicit" a (c) marker, "plain" a c marker, "mark" symbols only, "text" *)
(* other text, "gap" only blanks before the next mention, "end" nothing     *)
(* more on the line) and lead (what the line starts with: "mention",        *)
(* "blank", "marker" for symbols only, "text").                             *)
(***************************************************************************)
CaptainLine(line, vs_bare, lead, caps) ==
    [vs_bare |-> vs_bare, lead |-> lead, caps |-> caps] @@ line

CaptainLines ==
    {
      \* "Ab (3-1)"
      CaptainLine(
        [PlainLine EXCEPT !.blank = FALSE, !.record = TRUE, !.records = 1,
           !.raw = <<"A", "b">>, !.len = 8, !.scores = TRUE],
        FALSE, "text", <<>>),
      \* "Cc (1-3)"
      CaptainLine(
        [PlainLine EXCEPT !.blank = FALSE, !.record = TRUE, !.records = 1,
           !.raw = <<"C", "c">>, !.len = 8, !.scores = TRUE],
        FALSE, "text", <<>>),
      \* "@al (c) @bo"
      CaptainLine(
        [PlainLine EXCEPT !.blank = FALSE, !.at = TRUE,
           !.raw = <<"@", "a", "l", " ", "(", "c", ")", " ", "@", "b", "o">>,
           !.len = 11, !.left = <<<<"a", "l">>, <<"b", "o">>>>],
        FALSE, "mention", <<"explicit", "end">>),
      \* "@cy c @di"
      CaptainLine(
        [PlainLine EXCEPT !.blank = FALSE, !.at = TRUE,
           !.raw = <<"@", "c", "y", " ", "c", " ", "@", "d", "i">>,
           !.len = 9, !.left = <<<<"c", "y">>, <<"d", "i">>>>],
        FALSE, "mention", <<"plain", "end">>),
      \* "@alex @cy"
      CaptainLine(
        [PlainLine EXCEPT !.blank = FALSE, !.at = TRUE,
           !.raw = <<"@", "a", "l", "e", "x", " ", "@", "c", "y">>,
           !.len = 9, !.left = <<<<"a", "l", "e", "x">>, <<"c", "y">>>>],
        FALSE, "mention", <<"gap", "end">>),
      \* "vs"
      CaptainLine(
        [PlainLine EXCEPT !.blank = FALSE, !.vs_alone = TRUE,
           !.vs_any = TRUE, !.raw = <<"v", "s">>, !.len = 2],
        TRUE, "text", <<>>),
      \* "---"
      CaptainLine(
        [PlainLine EXCEPT !.blank = FALSE, !.sep = TRUE,
           !.raw = <<"-", "-", "-">>, !.len = 3, !.kind = "separator"],
        FALSE, "marker", <<>>),
      \* "@al vs @cy (c)"
      CaptainLine(
        [PlainLine EXCEPT !.blank = FALSE, !.at = TRUE, !.vs_any = TRUE,
           !.raw = <<"@", "a", "l", " ", "v", "s", " ", "@", "c", "y", " ",
                     "(", "c", ")">>,
           !.len = 14, !.left = <<<<"a", "l">>>>,
           !.right = <<<<"c", "y">>>>],
        FALSE, "mention", <<"text", "explicit">>),
      \* "Lineups"
      CaptainLine(
        [PlainLine EXCEPT !.blank = FALSE,
           !.raw = <<"L", "i", "n", "e", "u", "p", "s">>, !.len = 7,
           !.lineups_word = TRUE],
        FALSE, "text", <<>>)
    }

MaxCaptainLines == 4

\* captain_a / captain_b is None
NoCaptain == <<>>

\* what follows the last mention of line i: the start of the next line that
\* is not blank
NextLead(lns, i) ==
    LET later == { j \in DOMAIN lns : j > i /\ lns[j].lead # "blank" }
    IN  IF later = {} THEN "none" ELSE lns[FirstPos(later)].lead

\* the mentions of the lines from i on, in text order, each with what
\* CAPTAIN_EXPLICIT_RE, CAPTAIN_PLAIN_C_RE and is_captain_marker make of it
RECURSIVE MarkedFrom(_, _)
MarkedFrom(lns, i) ==
    IF i > Len(lns) THEN <<>>
    ELSE LET names == lns[i].left \o lns[i].right
             kind(k) == IF lns[i].caps[k] # "end" THEN lns[i].caps[k]
                        ELSE IF NextLead(lns, i) = "marker" THEN "mark"
                        ELSE "gap"
         IN  [k \in 1..Len(names) |-> [name |-> names[k], kind |-> kind(k)]]
             \o MarkedFrom(lns, i + 1)

\* the names of the marked mentions of some kinds, in text order
NamesOfKind(marked, kinds) ==
    LET hits == SelectSeq(marked, LAMBDA m : m.kind \in kinds)
    IN  [k \in 1..Len(hits) |-> hits[k].name]

\* list(dict.fromkeys(names))
RECURSIVE FromKeys(_)
FromKeys(names) ==
    IF names = <<>> THEN <<>>
    ELSE LET prev == FromKeys(SubSeq(names, 1, Len(names) - 1))
             last == names[Len(names)]
         IN  IF \E k \in 1..Len(prev) : prev[k] = last THEN prev
             ELSE Append(prev, last)

\* all_candidates = list(dict.fromkeys(explicit + plain_c + implicit))
AllCandidates(lns) ==
    LET marked == MarkedFrom(lns, 1)
        explicit == NamesOfKind(marked, {"explicit"})
        plain_c == NamesOfKind(marked, {"plain"})
        named == { explicit[k] : k \in 1..Len(explicit) }
                   \cup { plain_c[k] : k \in 1..Len(plain_c) }
        implicit == SelectSeq(NamesOfKind(marked, {"mark"}),
                              LAMBDA u : u \notin named)
    IN  FromKeys(explicit \o plain_c \o implicit)

\* re.search(rf"@{re.escape(cap)}", block): a mention of the block starts
\* with cap
InBlock(cap, block) ==
    \E k \in 1..Len(Mentions(block)) :
        /\ Len(cap) <= Len(Mentions(block)[k])
        /\ SubSeq(Mentions(block)[k], 1, Len(cap)) = cap

\* for cap in all_candidates: ... with captain_a, captain_b so far
RECURSIVE AssignCaptains(_, _, _, _, _)
AssignCaptains(cands, text_before, text_after, captain_a, captain_b) ==
    IF cands = <<>> THEN <<captain_a, captain_b>>
    ELSE IF InBlock(Head(cands), text_before) /\ captain_a = NoCaptain
    THEN AssignCaptains(Tail(cands), text_before, text_after,
                        Head(cands), captain_b)
    ELSE IF InBlock(Head(cands), text_after) /\ captain_b = NoCaptain
    THEN AssignCaptains(Tail(cands), text_before, text_after,
                        captain_a, Head(cands))
    ELSE AssignCaptains(Tail(cands), text_before, text_after,
                        captain_a, captain_b)

\* detect_captains(text): <<captain_a, captain_b>>
CaptainsOf(lns, all_candidates) ==
    LET vs == { i \in DOMAIN lns : lns[i].vs_bare }
    IN  IF vs # {}
        THEN AssignCaptains(all_candidates,
                            SubSeq(lns, 1, FirstPos(vs) - 1),
                            SubSeq(lns, FirstPos(vs) + 1, Len(lns)),
                            NoCaptain, NoCaptain)
        ELSE << IF Len(all_candidates) >= 1 THEN all_candidates[1]
                ELSE NoCaptain,
                IF Len(all_candidates) >= 2 THEN all_candidates[2]
                ELSE NoCaptain >>

detect_captains(lns) == CaptainsOf(lns, AllCandidates(lns))

\* the GameLineup of extract_lineup, with its captains
WithCaptains(lineup, captains) ==
    IF lineup = NoRecord THEN NoRecord
    ELSE [captain_a |-> captains[1], captain_b |-> captains[2]] @@ lineup

InitCaptains ==
    /\ LinkIdle /\ ResIdle /\ IdIdle /\ AppIdle
    /\ arg \in [thread : { <<>> },
                text : SeqsUpTo(CaptainLines, MaxCaptainLines) \ { <<>> }]
    /\ ret = [status |-> "idle"]

\* extract_lineup(comment, thread_text) of the post
ExtractLineup ==
    /\ ret.status = "idle"
    /\ ret' = WithCaptains(extract_lineup(arg), detect_captains(arg.text))
    /\ UNCHANGED <<arg, linkVars, resVars, idVars, appVars>>

NextCaptains == ExtractLineup

SpecCaptains == InitCaptains /\ [][NextCaptains]_vars

\* the handles of a roster
Handles(roster) == { roster[k] : k \in 1..Len(roster) }

\* C30: in every extracted lineup a captain that is set is one of the
\* handles of the roster of its own side, whichever divider split the
\* mentions and also without a standalone vs line.
C30_CaptainOnOwnSide ==
    ret.status = "lineup" =>
        /\ ret.captain_a # NoCaptain => ret.captain_a \in Handles(ret.players_a)
        /\ ret.captain_b # NoCaptain => ret.captain_b \in Handles(ret.players_b)

====
